---------------------------- MODULE Spec2Model ----------------------------
(***************************************************************************)
(* Model of BrowserService (services/browser-service.js): the browser     *)
(* session, the per-record search pipeline searchExpediente with its      *)
(* retry-by-recursion, the cost reconciliation evaluated in the page, the *)
(* acceptance sub-flow aceptarExpediente and the stats counters.          *)
(*                                                                         *)
(* One action is one synchronous block of the JavaScript code: the code   *)
(* that runs between two awaits.  The portal (page, DOM, selectors) is    *)
(* the environment: what each awaited page operation answers is chosen    *)
(* nondeterministically.                                                   *)
(*                                                                         *)
(* Texts are sequences of one-character strings.  Amounts and JavaScript  *)
(* numbers are integers counted in cents; NaN is the value NaN below.     *)
(***************************************************************************)
EXTENDS Integers, Sequences, FiniteSets, TLC

(***************************************************************************)
(* Bounds of the model.                                                    *)
(***************************************************************************)
\* Top-level calls are issued while totalRevisados leaves room for a call
\* that uses all its attempts; resetStats lets the driver go on for ever.
MaxRevisados == 6

\* initialize() is called on an open session while fewer than MaxLeaked
\* browsers are running unreferenced.
MaxLeaked == 2

\* The worksheets read have at most MaxRows rows, the header included.
MaxRows == 3

\* setInterval is called at most MaxTimers times.
MaxTimers == 3

(***************************************************************************)
(* Program constants.                                                      *)
(***************************************************************************)
maxRetries == 3
retryDelay == 2000

NaN == -1

(***************************************************************************)
(* Texts.                                                                  *)
(***************************************************************************)
Digits == <<"0", "1", "2", "3", "4", "5", "6", "7", "8", "9">>

IsDigit(c) == \E i \in 1..10 : Digits[i] = c

DigitVal(c) == (CHOOSE i \in 1..10 : Digits[i] = c) - 1

RECURSIVE TrimLeft(_)
TrimLeft(s) ==
    IF s # <<>> /\ Head(s) = " " THEN TrimLeft(Tail(s)) ELSE s

RECURSIVE TrimRight(_)
TrimRight(s) ==
    IF s # <<>> /\ s[Len(s)] = " " THEN TrimRight(SubSeq(s, 1, Len(s) - 1)) ELSE s

\* String.prototype.trim
Trim(s) == TrimRight(TrimLeft(s))

\* String.prototype.replace(c, '') with a string pattern: only the first
\* occurrence of c is replaced.
RECURSIVE ReplaceFirst(_, _)
ReplaceFirst(s, c) ==
    IF s = <<>> THEN <<>>
    ELSE IF Head(s) = c THEN Tail(s)
    ELSE <<Head(s)>> \o ReplaceFirst(Tail(s), c)

RECURSIVE LeadingDigits(_)
LeadingDigits(s) ==
    IF s # <<>> /\ IsDigit(Head(s)) THEN <<Head(s)>> \o LeadingDigits(Tail(s)) ELSE <<>>

RECURSIVE DigitsToNat(_)
DigitsToNat(ds) ==
    IF ds = <<>> THEN 0
    ELSE DigitsToNat(SubSeq(ds, 1, Len(ds) - 1)) * 10 + DigitVal(ds[Len(ds)])

\* The first two decimals of a fraction, as cents.
FractionCents(fs) ==
    IF Len(fs) = 0 THEN 0
    ELSE IF Len(fs) = 1 THEN DigitVal(fs[1]) * 10
    ELSE DigitVal(fs[1]) * 10 + DigitVal(fs[2])

\* parseFloat of a text: leading blanks are skipped, then the longest prefix
\* digits [ "." digits ] is the number; whatever follows is ignored; NaN when
\* there is no such prefix.  The result is counted in cents (the texts of the
\* model carry at most two decimals).
ParseFloat(s) ==
    LET t    == TrimLeft(s)
        ints == LeadingDigits(t)
        rest == SubSeq(t, Len(ints) + 1, Len(t))
        frac == IF rest # <<>> /\ Head(rest) = "." THEN LeadingDigits(Tail(rest)) ELSE <<>>
    IN  IF ints = <<>> /\ frac = <<>> THEN NaN
        ELSE DigitsToNat(ints) * 100 + FractionCents(frac)

\* The === of two JavaScript numbers: NaN equals nothing.
NumEq(a, b) == a # NaN /\ b # NaN /\ a = b

RECURSIVE NatToDigits(_)
NatToDigits(n) ==
    IF n < 10 THEN <<Digits[n + 1]>>
    ELSE NatToDigits(n \div 10) \o <<Digits[(n % 10) + 1]>>

RECURSIVE GroupThousands(_)
GroupThousands(ds) ==
    IF Len(ds) <= 3 THEN ds
    ELSE GroupThousands(SubSeq(ds, 1, Len(ds) - 3)) \o <<",">>
            \o SubSeq(ds, Len(ds) - 2, Len(ds))

\* new Intl.NumberFormat('es-MX', {style: 'currency', currency: 'MXN'}).format(n)
FormatMXN(n) ==
    IF n = NaN THEN <<"N", "a", "N">>
    ELSE <<"$">> \o GroupThousands(NatToDigits(n \div 100)) \o <<".">>
            \o <<Digits[((n % 100) \div 10) + 1], Digits[(n % 10) + 1]>>

(***************************************************************************)
(* The portal, as the page shows it.                                       *)
(***************************************************************************)
BlankUrl      == "about:blank"
PortalUrl     == "https://portalproveedores.ikeasistencia.com"
PendientesUrl == "https://portalproveedores.ikeasistencia.com/admin/services/pendientes"
NoUrl         == ""

\* page.url().includes('portalproveedores.ikeasistencia.com')
UrlIncludesPortal(u) == u \in {PortalUrl, PendientesUrl}

\* The candidate selectors of the search input, in the order they are tried.
inputSelectors ==
    << "input[placeholder=\"No. Expediente:*\"]",
       "input[formcontrolname=\"expediente\"]",
       "input.mat-mdc-input-element",
       "input[type=\"text\"]" >>

\* Requests of the driver: ids (digits only) and expected costs, in cents.
Expedientes     == {"123456"}
CostosGuardados == {99999, 100000}

\* The first row of the results table when the page is evaluated: no row, a
\* row with fewer than three cells, or a row whose third cell holds the cost
\* text.  monto is the amount (in cents) the portal rendered into costText;
\* info is the text of each of the cells 3..7.
Row(k, m, t, i) == [kind |-> k, monto |-> m, costText |-> t, info |-> i]

NoRow == Row("none", 0, <<>>, "")

Rows ==
    { NoRow,
      Row("short", 0, <<>>, ""),
      Row("data", 0, <<>>, "Activo"),
      Row("data", 0, <<" ", " ">>, "Activo"),
      Row("data", 0, <<"$", "0">>, "Activo"),
      Row("data", 0, FormatMXN(0), "Activo"),
      Row("data", 99999, FormatMXN(99999), ""),
      Row("data", 100000, FormatMXN(100000), "Activo"),
      Row("data", 100000, <<" ">> \o FormatMXN(100000) \o <<" ">>, "Activo"),
      Row("data", 100000000, FormatMXN(100000000), "Activo") }

(***************************************************************************)
(* Values of the program.                                                  *)
(***************************************************************************)
Undefined     == "undefined"
UndefinedText == <<"undefined">>

ZeroStats == [totalRevisados |-> 0, totalConCosto |-> 0, totalAceptados |-> 0]

\* What page.evaluate returns when there is nothing to reconcile:
\* {hayDatos: false, costosCoinciden: false}.
SinDatos ==
    [ hayDatos |-> FALSE, costosCoinciden |-> FALSE,
      costo |-> UndefinedText, estatus |-> Undefined, notas |-> Undefined,
      fechaRegistro |-> Undefined, servicio |-> Undefined,
      subservicio |-> Undefined, validacion |-> Undefined ]

\* Seeded defect: the test against '$0' is left out.
tieneContenido_SinCero(r) ==
    /\ r.kind = "data"
    /\ r.costText # <<>>
    /\ Trim(r.costText) # <<>>
    /\ Trim(r.costText) # <<"$", "0", ".", "0", "0">>

\* cells[2] && textContent && trim() !== '' && !== '$0.00' && !== '$0'
tieneContenido(r) ==
    /\ r.kind = "data"
    /\ r.costText # <<>>
    /\ Trim(r.costText) # <<>>
    /\ Trim(r.costText) # <<"$", "0", ".", "0", "0">>
    /\ Trim(r.costText) # <<"$", "0">>

\* cells[2].textContent.trim().replace('$', '').replace(',', '')
costoSistema(t) == ReplaceFirst(ReplaceFirst(Trim(t), "$"), ",")

\* parseFloat(costoSistema) === parseFloat(guardado); guardado is a number,
\* which parseFloat gives back unchanged.
costosCoinciden(t, guardado) == NumEq(ParseFloat(costoSistema(t)), guardado)

\* The function evaluated in the page: the first row of the table against
\* the expected cost.
EvaluateRow(r, guardado) ==
    IF r.kind = "none" THEN SinDatos
    ELSE IF ~tieneContenido(r) THEN SinDatos
    ELSE [ hayDatos |-> TRUE,
           costosCoinciden |-> costosCoinciden(r.costText, guardado),
           costo |-> FormatMXN(ParseFloat(costoSistema(r.costText))),
           estatus |-> r.info, notas |-> r.info, fechaRegistro |-> r.info,
           servicio |-> r.info, subservicio |-> r.info,
           validacion |-> IF costosCoinciden(r.costText, guardado)
                          THEN "Aceptado" ELSE "No aceptado" ]

\* this.stats.totalRevisados++
Revisado(st) == [st EXCEPT !.totalRevisados = @ + 1]

\* Seeded defect: a match increments totalAceptados without totalConCosto.
ActualizarStats_SinConCosto(st, res) ==
    IF res.hayDatos
    THEN IF res.costosCoinciden
         THEN [st EXCEPT !.totalAceptados = @ + 1]
         ELSE [st EXCEPT !.totalConCosto = @ + 1]
    ELSE st

\* Seeded defect: a match does not increment totalAceptados.
ActualizarStats_SinAceptados(st, res) ==
    IF res.hayDatos THEN [st EXCEPT !.totalConCosto = @ + 1] ELSE st

\* Seeded defect: totalConCosto is incremented on a match only.
ActualizarStats_SoloCoincidencia(st, res) ==
    IF res.hayDatos /\ res.costosCoinciden
    THEN [st EXCEPT !.totalConCosto = @ + 1, !.totalAceptados = @ + 1]
    ELSE st

\* The update of the counters after the evaluation.
ActualizarStats(st, res) ==
    IF res.hayDatos
    THEN IF res.costosCoinciden
         THEN [st EXCEPT !.totalConCosto = @ + 1, !.totalAceptados = @ + 1]
         ELSE [st EXCEPT !.totalConCosto = @ + 1]
    ELSE st

\* Seeded defect: the failed acceptance leaves validacion as it was.
MarcarErrorAceptacion_Omitido(res) == res

\* expedienteData.validacion = 'Error en aceptación'
MarcarErrorAceptacion(res) == [res EXCEPT !.validacion = "Error en aceptación"]

BoolText(b) == IF b THEN "true" ELSE "false"

\* The object searchExpediente returns after an evaluation:
\* {...searchResult, stats: this.stats}, hayDatos deleted.
ResultOutcome(res, st) ==
    [ kind |-> "returned",
      costo |-> res.costo, estatus |-> res.estatus, notas |-> res.notas,
      fechaRegistro |-> res.fechaRegistro, servicio |-> res.servicio,
      subservicio |-> res.subservicio, validacion |-> res.validacion,
      costosCoinciden |-> BoolText(res.costosCoinciden), stats |-> st ]

\* Seeded defect: the error outcome carries no validacion.
ErrorOutcome_SinValidacion(st) ==
    [ kind |-> "returned",
      costo |-> <<>>, estatus |-> "", notas |-> "", fechaRegistro |-> "",
      servicio |-> "", subservicio |-> "", validacion |-> "",
      costosCoinciden |-> Undefined, stats |-> st ]

\* The object searchExpediente returns when the retries are used up.
ErrorOutcome(st) ==
    [ kind |-> "returned",
      costo |-> <<>>, estatus |-> "", notas |-> "", fechaRegistro |-> "",
      servicio |-> "", subservicio |-> "", validacion |-> "Error en consulta",
      costosCoinciden |-> Undefined, stats |-> st ]

\* No call has returned yet.
NoOutcome ==
    [ kind |-> "none",
      costo |-> UndefinedText, estatus |-> Undefined, notas |-> Undefined,
      fechaRegistro |-> Undefined, servicio |-> Undefined,
      subservicio |-> Undefined, validacion |-> Undefined,
      costosCoinciden |-> Undefined, stats |-> ZeroStats ]

\* The outcome object the driver holds: whether its stats field is the very
\* object this.stats names, and the counters it showed when it was returned.
Held(a, st) == [has |-> TRUE, alias |-> a, atReturn |-> st]

NoHeld == [has |-> FALSE, alias |-> FALSE, atReturn |-> ZeroStats]

\* What configService.getCredentials() can give: null, or an object whose
\* username and password are texts, possibly empty.
Credentials(n, u, p) == [isNull |-> n, username |-> u, password |-> p]

NullCredentials == Credentials(TRUE, "", "")

CredentialsStored ==
    { NullCredentials,
      Credentials(FALSE, "testuser", "testpassword"),
      Credentials(FALSE, "", "testpassword"),
      Credentials(FALSE, "testuser", "") }

\* if (retryCount < this.maxRetries)
\* Seeded defect: the catch block never retries.
RetryAllowed_Nunca(rc) == FALSE

\* Seeded defect: one retry more than maxRetries.
RetryAllowed_Inclusive(rc) == rc <= maxRetries

\* if (retryCount < this.maxRetries)
RetryAllowed(rc) == rc < maxRetries

(***************************************************************************)
(* LicenseModel: dates and numbers.                                        *)
(***************************************************************************)
\* A JavaScript number: an integer, or NaN.
JsNum(v) == [nan |-> FALSE, val |-> v]
JsNaN    == [nan |-> TRUE, val |-> 0]

\* a > b on numbers: false when either is NaN.
JsGreater(a, b) == ~a.nan /\ ~b.nan /\ a.val > b.val

\* 1000 * 60 * 60 * 24
msPerDay == 1000 * 60 * 60 * 24

\* Math.ceil(a / b) for b > 0 (a result of -0 is the integer 0).
CeilDiv(a, b) == -((-a) \div b)

AllDigits(s) == \A i \in 1..Len(s) : IsDigit(s[i])

IsLeap(y) == (y % 4 = 0 /\ y % 100 # 0) \/ y % 400 = 0

DaysInMonth(y, mo) ==
    IF mo = 2 THEN (IF IsLeap(y) THEN 29 ELSE 28)
    ELSE IF mo \in {4, 6, 9, 11} THEN 30 ELSE 31

\* Days from 1970-01-01 to the day d of the month mo of the year y.
DaysFromCivil(y, mo, d) ==
    LET yy  == IF mo <= 2 THEN y - 1 ELSE y
        era == yy \div 400
        yoe == yy - era * 400
        mp  == IF mo > 2 THEN mo - 3 ELSE mo + 9
        doy == (153 * mp + 2) \div 5 + d - 1
        doe == yoe * 365 + yoe \div 4 - yoe \div 100 + doy
    IN  era * 146097 + doe - 719468

\* new Date(text).getTime() for a text: the time of an ISO date
\* (YYYY-MM-DD, UTC) or of an ISO date-time (YYYY-MM-DDTHH:mm:ss.sssZ), NaN
\* for any other text.  new Date(text) does not throw.
DateParse(s) ==
    LET n      == Len(s)
        num(i, j) == DigitsToNat(SubSeq(s, i, j))
        dateOk == /\ n >= 10
                  /\ AllDigits(SubSeq(s, 1, 4)) /\ s[5] = "-"
                  /\ AllDigits(SubSeq(s, 6, 7)) /\ s[8] = "-"
                  /\ AllDigits(SubSeq(s, 9, 10))
                  /\ num(6, 7) \in 1..12
                  /\ num(9, 10) \in 1..DaysInMonth(num(1, 4), num(6, 7))
        timeOk == /\ n = 24
                  /\ s[11] = "T" /\ AllDigits(SubSeq(s, 12, 13))
                  /\ s[14] = ":" /\ AllDigits(SubSeq(s, 15, 16))
                  /\ s[17] = ":" /\ AllDigits(SubSeq(s, 18, 19))
                  /\ s[20] = "." /\ AllDigits(SubSeq(s, 21, 23))
                  /\ s[24] = "Z"
                  /\ num(12, 13) <= 23 /\ num(15, 16) <= 59
                  /\ num(18, 19) <= 59
        days   == DaysFromCivil(num(1, 4), num(6, 7), num(9, 10))
    IN  IF dateOk /\ n = 10 THEN JsNum(days * msPerDay)
        ELSE IF dateOk /\ timeOk
        THEN JsNum(days * msPerDay + num(12, 13) * 3600000
                   + num(15, 16) * 60000 + num(18, 19) * 1000 + num(21, 23))
        ELSE JsNaN

\* Date.prototype.toISOString of the hour h of the day d of January 1970.
IsoText(d, h) ==
    << "1", "9", "7", "0", "-", "0", "1", "-" >>
    \o (IF d < 10 THEN << "0" >> ELSE << >>) \o NatToDigits(d) \o << "T" >>
    \o (IF h < 10 THEN << "0" >> ELSE << >>) \o NatToDigits(h)
    \o << ":", "0", "0", ":", "0", "0", ".", "0", "0", "0", "Z" >>

\* The expiresAt a LicenseModel is built with: none (''), a text that is no
\* date, and dates.
ExpiresAtValues ==
    { << >>,
      << "i", "n", "v", "a", "l", "i", "d", "-", "d", "a", "t", "e" >>,
      IsoText(2, 0), IsoText(3, 12), IsoText(5, 0),
      << "1", "9", "7", "0", "-", "0", "1", "-", "0", "4" >> }

\* The currentDate the methods are called with, in ms: the start of a day of
\* January 1970, or its noon.
CurrentDates ==
    { (d - 1) * msPerDay + h * 3600000 : d \in {1, 2, 3, 6}, h \in {0, 12} }

\* isExpired(currentDate) of a model whose expiresAt is e.
isExpired(e, now) ==
    IF e = << >> THEN TRUE ELSE JsGreater(JsNum(now), DateParse(e))

\* getDaysRemaining(currentDate) of a model whose expiresAt is e.
getDaysRemaining(e, now) ==
    IF e = << >> THEN JsNum(0)
    ELSE LET expirationDate == DateParse(e)
         IN  IF expirationDate.nan THEN JsNaN
             ELSE JsNum(CeilDiv(expirationDate.val - now, msPerDay))

\* getDaysRemaining has not been called.
NoDays == [called |-> FALSE, nan |-> FALSE, val |-> 0]

(***************************************************************************)
(* ConfigService: values.                                                  *)
(***************************************************************************)
\* The user names and passwords saveCredentials is called with.
Usernames == {"", "testuser", "otro"}
Passwords == {"", "testpass", "otra"}

\* The store's 'credentials' and 'isConfigured'.
Stored(cr, conf) == [credentials |-> cr, isConfigured |-> conf]

\* Seeded defect: only a call with both values empty is refused.
CredentialsRequired_Ambos(u, p) == u = "" /\ p = ""

\* if (!username || !password)
CredentialsRequired(u, p) == u = "" \/ p = ""

(***************************************************************************)
(* ExcelService: worksheets.                                               *)
(***************************************************************************)
\* row.getCell(1).value of a row: null for an empty cell, a string for a text
\* cell, a number for a numeric cell; "norow" stands for a row with no cell
\* at all, which eachRow({includeEmpty: false}) does not visit.
Cell(kind, text, num) == [kind |-> kind, text |-> text, num |-> num]

CellValues ==
    { Cell("norow", << >>, 0),
      Cell("null", << >>, 0),
      Cell("string", << "1", "2", "3", "4", "5", "6" >>, 0),
      Cell("string", << " ", "4", "2", " " >>, 0),
      Cell("string", << "1", "2", "a" >>, 0),
      Cell("string", << "E", "x", "p" >>, 0),
      Cell("number", << >>, 7),
      Cell("number", << >>, 0),
      Cell("number", << >>, -5) }

\* !cellA
CellFalsy(c) ==
    \/ c.kind = "null"
    \/ c.kind = "string" /\ c.text = << >>
    \/ c.kind = "number" /\ c.num = 0

\* String(cellA)
CellString(c) ==
    IF c.kind = "string" THEN c.text
    ELSE IF c.num < 0 THEN << "-" >> \o NatToDigits(-c.num)
    ELSE NatToDigits(c.num)

\* /^\d+$/.test(text)
OnlyDigits(text) == text # << >> /\ AllDigits(text)

\* The rows the callback leaves at once: rows eachRow does not visit, the
\* header, rows whose column A is falsy.
SkipRow(c, rowNumber) ==
    c.kind = "norow" \/ rowNumber = 1 \/ CellFalsy(c)

\* filas after the callback of eachRow ran for the rows i, i + 1, ... of the
\* sheet.
RECURSIVE Filas(_, _)
Filas(sheet, i) ==
    IF i > Len(sheet) THEN << >>
    ELSE LET expediente == Trim(CellString(sheet[i]))
         IN  IF ~SkipRow(sheet[i], i) /\ OnlyDigits(expediente)
             THEN << [expediente |-> expediente, rowNumber |-> i] >>
                     \o Filas(sheet, i + 1)
             ELSE Filas(sheet, i + 1)

\* readExpedientesAndRows has not been called.
NoRead == [kind |-> "none", filas |-> << >>]

(***************************************************************************)
(* LicenseService: values.                                                 *)
(***************************************************************************)
\* The tokens validateToken is called with.
TokenArgs == { << >>, << " ", " " >>, << "T", "1" >>, << "T", "2" >> }

\* Seeded defect: only the empty token is refused.
EmptyToken_SoloVacio(token) == token = << >>

\* !token || token.trim() === ''
EmptyToken(token) == token = << >> \/ Trim(token) = << >>

\* store.get('validatedToken'): nothing, or a token that the local clock
\* finds expired or not.
StoredToken(token, expired) ==
    [has |-> TRUE, token |-> token, expired |-> expired]

NoStored == [has |-> FALSE, token |-> << >>, expired |-> FALSE]

\* response.data of the license server when the request got an answer: the
\* literal true, {success: true}, {success: true, expiresAt}, {success:
\* false, message}, null.
LicenseBodies == {"true", "success", "successExpires", "failure", "null"}

\* What a LicenseService call returns.
LsResult(valid, offline, requires) ==
    [ kind |-> "returned", valid |-> valid, offlineMode |-> offline,
      requiresToken |-> requires ]

NoLsResult ==
    [ kind |-> "none", valid |-> FALSE, offlineMode |-> FALSE,
      requiresToken |-> FALSE ]

\* response.success of redeemToken and validateToken, where response is what
\* apiService.post resolved with: the body of the answer, or the failure
\* object of ApiService.request.  Reading it from a null body throws, and the
\* catch block returns valid: false.
ReportsSuccess(res, body) ==
    res.kind = "data" /\ body \in {"success", "successExpires"}

\* validateWithServer, given what apiService.get resolved with: "valid",
\* "invalid", or "raised" when reading the answer throws.
validateWithServer(res, body) ==
    IF res.kind # "data" THEN "invalid"
    ELSE IF body = "null" THEN "raised"
    ELSE IF body \in {"true", "success", "successExpires"} THEN "valid"
    ELSE "invalid"

\* What checkInitialLicense returns for each answer of validateWithServer:
\* the catch of a raised validation returns the offline result, whether the
\* stored token is locally expired or not.
InitialLicenseResult(status) ==
    IF status = "valid" THEN LsResult(TRUE, FALSE, FALSE)
    ELSE IF status = "invalid" THEN LsResult(FALSE, FALSE, TRUE)
    ELSE LsResult(TRUE, TRUE, FALSE)

(***************************************************************************)
(* ApiService: values.                                                     *)
(***************************************************************************)
\* this.maxRetries and this.retryDelay of ApiService.
apiMaxRetries == 3
apiRetryDelay == 2000

ApiMethods == {"get", "post"}

\* What axios rejects with: error.response with its status and its
\* data.message ("" when there is none), error.code ("" when there is none)
\* and whether error.message includes 'timeout'.
ApiError(resp, st, msg, code, tmo) ==
    [ response |-> resp, status |-> st, serverMessage |-> msg, code |-> code,
      timeout |-> tmo ]

NoApiError == ApiError(FALSE, 0, "", "", FALSE)

ApiErrors ==
    { ApiError(TRUE, st, msg, code, FALSE) :
        st \in {404, 500}, msg \in {"", "Not found"},
        code \in {"", "ECONNRESET"} }
    \cup
    { ApiError(FALSE, 0, "", code, tmo) :
        code \in {"", "ECONNABORTED", "ENOTFOUND", "ETIMEDOUT", "ECONNRESET",
                  "ECONNREFUSED"},
        tmo \in BOOLEAN }

\* response.data of a call that succeeded.
ApiData == {"data1", "data2"}
NoApiResponse == ""

\* const networkErrors = [...]
networkErrors == {"ECONNABORTED", "ENOTFOUND", "ETIMEDOUT", "ECONNRESET"}

\* networkErrors.includes(error.code) || error.message.includes('timeout')
IsNetworkError(err) == err.code \in networkErrors \/ err.timeout

\* Seeded defect: one retry more than maxRetries.
ApiRetryAllowed_Inclusive(rc, err) ==
    rc <= apiMaxRetries /\ IsNetworkError(err)

\* if (retryCount < this.maxRetries && (...))
ApiRetryAllowed(rc, err) == rc < apiMaxRetries /\ IsNetworkError(err)

\* No request has resolved yet.
NoApiResult ==
    [ kind |-> "none", data |-> "", success |-> "", status |-> 0,
      message |-> "" ]

\* return response.data
ApiSuccess(data) ==
    [ kind |-> "data", data |-> data, success |-> "", status |-> 0,
      message |-> "" ]

\* Seeded defect: the status of the server's response is left out.
ApiServerFailure_SinStatus(err) ==
    [ kind |-> "object", data |-> "", success |-> "false", status |-> 0,
      message |-> IF err.serverMessage = "" THEN "Error en el servidor"
                  ELSE err.serverMessage ]

\* return {success: false, status: error.response.status,
\*         message: error.response.data?.message || 'Error en el servidor'}
ApiServerFailure(err) ==
    [ kind |-> "object", data |-> "", success |-> "false",
      status |-> err.status,
      message |-> IF err.serverMessage = "" THEN "Error en el servidor"
                  ELSE err.serverMessage ]

\* return {success: false, error: error.message, message: readable}: no
\* status field.
ApiFailure(err) ==
    [ kind |-> "object", data |-> "", success |-> "false", status |-> 0,
      message |-> "readable" ]

(***************************************************************************)
(* State.                                                                  *)
(***************************************************************************)
VARIABLES
    browser,        \* this.browser: "null" or "open"
    page,           \* this.page: "null" or "open"
    pageUrl,        \* page.url() of this.page (NoUrl when page is null)
    stats,          \* this.stats
    pc,             \* the await the running searchExpediente is suspended at
    expediente,     \* argument of the running call
    costoGuardado,  \* argument of the running call, in cents
    retryCount,     \* argument retryCount of the running invocation
    selIdx,         \* index of the selector the lookup loop is at
    inputElement,   \* index of the selector that gave inputElement, 0 = null
    submitVia,      \* how the search was submitted: "none", "click", "enter"
    row,            \* the first row of the table when the page was evaluated
    searchResult,   \* the object page.evaluate returned
    outcome,        \* what the last top-level searchExpediente call returned
    initResult,     \* what the last initialize() call did: "true", "raised"
    base,           \* history: this.stats when the top-level call was made
    attempts,       \* history: invocations of searchExpediente in this call
    failures,       \* history: invocations that ended in the catch block
    acceptCalls,    \* history: invocations of aceptarExpediente in this call
    acceptClicks,   \* history: clicks on the row's accept control
    confirmClicks,  \* history: clicks on the modal's confirm control
    held,           \* the outcome object the driver holds from an earlier call
    statsReset,     \* history: resetStats ran and no call was made since
    ipc,            \* the await the running initialize() or close() is at
    credentials,    \* what configService.getCredentials() gave to login()
    leaked,         \* history: launched browsers this.browser no longer names
    launches,       \* history: puppeteer.launch calls of this initialize()
    logins,         \* history: login() calls of this initialize()
    navigated,      \* history: login() issued page.goto
    typed,          \* history: login() issued page.type
    passwordField,  \* history: the password input when login() looked for it
    loginResult,    \* history: what login() did: "true", "raised"
    initFailure,    \* history: the step of initialize() that threw
    closes,         \* history: close() calls in a row that returned
    closeResult,    \* history: what the last close() did
    lookups,         \* history: what page.$ gave for each candidate tried
    apc,            \* the await the running ApiService.request is at
    apiMethod,      \* config.method of the running request
    apiRetryCount,  \* argument retryCount of the running invocation
    apiCalls,       \* history: axios calls of this request
    apiWaited,      \* history: milliseconds this request waited to retry
    apiError,       \* what the last axios call of this request rejected with
    apiResponse,    \* what the last axios call of this request resolved with
    apiResult,       \* what the last request resolved with
    licExpiresAt,   \* this.expiresAt of the LicenseModel
    licExpiredAt,   \* currentDate of the last isExpired call, in ms
    licExpired,     \* what the last isExpired call returned
    licDaysAt,      \* currentDate of the last getDaysRemaining call, in ms
    licDays,         \* what the last getDaysRemaining call returned
    cfgCredentials, \* the store's 'credentials'
    cfgIsConfigured, \* the store's 'isConfigured'
    cfgUsername,    \* argument username of the last saveCredentials call
    cfgPassword,    \* argument password of the last saveCredentials call
    cfgBefore,      \* history: the two store values when the call was made
    cfgRefused,     \* history: the store threw on a write of the call
    cfgResult,       \* what the last saveCredentials call did: "true", "raised"
    xlsSheet,       \* column A of the first worksheet of the file, row by row
    xlsResult,       \* what the last readExpedientesAndRows call resolved with
    submitLog,       \* history: the lookup, the click and the Enter keys of the submission
    waitTimeout,     \* history: the wait for the results of this attempt timed out
    acceptReturn,    \* history: what aceptarExpediente returned: "none", "true", "false"
    delays,          \* history: the retry waits this call has issued, in milliseconds
    lsStore,        \* the store's 'validatedToken'
    lspc,           \* the await the running LicenseService call is at
    lsCall,         \* the LicenseService method called last
    lsToken,        \* argument token of the last validateToken call
    lsSent,         \* history: the requests this call sent, in order
    lsReplies,      \* history: whether each response of this call reported success
    lsSaves,        \* history: saveValidatedToken calls of this call
    lsResult,       \* what the last LicenseService call returned
    checkInterval,  \* this.checkInterval: 0 for null, or the timer
    timers,         \* the interval timers that are active
    nextTimer,      \* the timer the next setInterval gives
    lsTimerOp,      \* history: the last thing done to or by a timer
    lsTicker        \* history: the timer whose callback ran last

vars == << browser, page, pageUrl, stats, pc, expediente, costoGuardado,
           retryCount, selIdx, inputElement, submitVia, row, searchResult,
           outcome, initResult, base, attempts, failures, acceptCalls,
           acceptClicks, confirmClicks, held, statsReset, ipc, credentials,
           leaked, launches, logins, navigated, typed, passwordField,
           loginResult, initFailure, closes, closeResult, lookups,
           apc, apiMethod, apiRetryCount, apiCalls, apiWaited, apiError, apiResponse, apiResult,
           licExpiresAt, licExpiredAt, licExpired, licDaysAt, licDays,
           cfgCredentials, cfgIsConfigured, cfgUsername, cfgPassword, cfgBefore, cfgRefused, cfgResult,
           xlsSheet, xlsResult,
           submitLog,
           waitTimeout,
           acceptReturn,
           delays,
           lsStore, lspc, lsCall, lsToken, lsSent, lsReplies, lsSaves, lsResult, checkInterval, timers, nextTimer, lsTimerOp, lsTicker >>

session  == << browser, page, pageUrl >>
request  == << expediente, costoGuardado >>
lookup   == << selIdx, inputElement, submitVia, lookups, submitLog,
              waitTimeout >>
accepted == << acceptCalls, acceptClicks, confirmClicks, acceptReturn >>

\* The state and the history that only the steps of initialize(), login()
\* and close() of SessionSpec advance.
api == << apc, apiMethod, apiRetryCount, apiCalls, apiWaited, apiError,
         apiResponse, apiResult >>

\* The state of the services that do not use the browser.
license == << licExpiresAt, licExpiredAt, licExpired, licDaysAt, licDays >>

config == << cfgCredentials, cfgIsConfigured, cfgUsername, cfgPassword,
            cfgBefore, cfgRefused, cfgResult >>

excel == << xlsSheet, xlsResult >>

licsvc == << lsStore, lspc, lsCall, lsToken, lsSent, lsReplies, lsSaves,
            lsResult, checkInterval, timers, nextTimer, lsTimerOp, lsTicker >>

services == << api, license, config, excel, licsvc >>

lifecycle == << ipc, credentials, leaked, launches, logins, navigated, typed,
               passwordField, loginResult, initFailure, closes, closeResult >>

\* The state of one search call, which the steps of SessionSpec leave alone.
search == << stats, pc, request, retryCount, lookup, row, searchResult,
            outcome, base, attempts, failures, delays, accepted, held, statsReset >>

\* The state after the module is loaded: new BrowserService().
Init ==
    /\ browser = "null"
    /\ page = "null"
    /\ pageUrl = NoUrl
    /\ stats = ZeroStats
    /\ pc = "idle"
    /\ expediente = "123456"
    /\ costoGuardado = 100000
    /\ retryCount = 0
    /\ selIdx = 0
    /\ inputElement = 0
    /\ submitVia = "none"
    /\ row = NoRow
    /\ searchResult = SinDatos
    /\ outcome = NoOutcome
    /\ initResult = "none"
    /\ base = ZeroStats
    /\ attempts = 0
    /\ failures = 0
    /\ acceptCalls = 0
    /\ acceptClicks = 0
    /\ confirmClicks = 0
    /\ held = NoHeld
    /\ statsReset = FALSE
    /\ ipc = "idle"
    /\ credentials = NullCredentials
    /\ leaked = 0
    /\ launches = 0
    /\ logins = 0
    /\ navigated = FALSE
    /\ typed = FALSE
    /\ passwordField = "unknown"
    /\ loginResult = "none"
    /\ initFailure = "none"
    /\ closes = 0
    /\ closeResult = "none"
    /\ lookups = << >>
    /\ apc = "idle"
    /\ apiMethod = "get"
    /\ apiRetryCount = 0
    /\ apiCalls = 0
    /\ apiWaited = 0
    /\ apiError = NoApiError
    /\ apiResponse = NoApiResponse
    /\ apiResult = NoApiResult
    /\ licExpiresAt = << >>
    /\ licExpiredAt = 0
    /\ licExpired = "none"
    /\ licDaysAt = 0
    /\ licDays = NoDays
    /\ cfgCredentials = NullCredentials
    /\ cfgIsConfigured = FALSE
    /\ cfgUsername = ""
    /\ cfgPassword = ""
    /\ cfgBefore = Stored(NullCredentials, FALSE)
    /\ cfgRefused = FALSE
    /\ cfgResult = "none"
    /\ xlsSheet = << >>
    /\ xlsResult = NoRead
    /\ submitLog = << >>
    /\ waitTimeout = FALSE
    /\ acceptReturn = "none"
    /\ delays = << >>
    /\ lsStore = NoStored
    /\ lspc = "idle"
    /\ lsCall = "none"
    /\ lsToken = << >>
    /\ lsSent = << >>
    /\ lsReplies = << >>
    /\ lsSaves = 0
    /\ lsResult = NoLsResult
    /\ checkInterval = 0
    /\ timers = {}
    /\ nextTimer = 1
    /\ lsTimerOp = "none"
    /\ lsTicker = 0

\* What an awaited page operation of a running call can do: anything while
\* this.page is a page, only throw once close() has set this.page to null.
\* Seeded defect: page operations go on answering after close().
PageOk_SinCierre == BOOLEAN

PageOk == IF page = "null" THEN {FALSE} ELSE BOOLEAN

PageThrows == {~ok : ok \in PageOk}

PageGives(answers) == IF page = "null" THEN {"throws"} ELSE answers

(***************************************************************************)
(* searchExpediente.                                                       *)
(***************************************************************************)
\* Seeded defect: the wait grows with the retry.
RetryWait_Creciente(rc) == retryDelay * (rc + 1)

\* await this.delay(this.retryDelay) of the invocation with argument rc.
RetryWait(rc) == retryDelay

\* The waits issued before the invocation with argument rc ends: none in
\* the first invocation of a call.
DelaysSoFar(rc) == IF rc = 0 THEN << >> ELSE delays

\* Seeded defect: the catch block rethrows when the retries are used up.
Catch_Rethrow(rc, f, st) ==
    /\ failures' = f
    /\ delays' = IF RetryAllowed(rc)
                 THEN Append(DelaysSoFar(rc), RetryWait(rc))
                 ELSE DelaysSoFar(rc)
    /\ IF RetryAllowed(rc)
       THEN pc' = "retryDelay" /\ outcome' = NoOutcome
       ELSE pc' = "idle" /\ outcome' = [NoOutcome EXCEPT !.kind = "raised"]

\* The catch block of the invocation with argument rc, the f-th failing
\* invocation of the call: wait and search again, or return the error
\* outcome.  st is this.stats at that point.
Catch(rc, f, st) ==
    /\ failures' = f
    /\ delays' = IF RetryAllowed(rc)
                 THEN Append(DelaysSoFar(rc), RetryWait(rc))
                 ELSE DelaysSoFar(rc)
    /\ IF RetryAllowed(rc)
       THEN pc' = "retryDelay" /\ outcome' = NoOutcome
       ELSE pc' = "idle" /\ outcome' = ErrorOutcome(st)

\* return {...searchResult, stats: this.stats}, where searchResult is res
\* and this.stats is st.
Return(res, st) ==
    /\ pc' = "idle"
    /\ outcome' = ResultOutcome(res, st)

\* The driver keeps the object a call returns: its stats field is this.stats
\* itself (stats: this.stats), not a copy.  Until the call returns the driver
\* holds what it held before.
Hold ==
    held' = IF pc' = "idle" THEN Held(TRUE, outcome'.stats) ELSE held

\* The counters read now through the stats field of the object held.
HeldStats == IF held.alias THEN stats ELSE held.atReturn

\* The start of the invocation with argument rc, up to its first await: the
\* counter, the timeout set on the page (a TypeError when this.page is
\* null), the test of the url.  f invocations of the call failed before.
Invocation(rc, f) ==
    /\ stats' = Revisado(stats)
    /\ retryCount' = rc
    /\ selIdx' = 1
    /\ inputElement' = 0
    /\ submitVia' = "none"
    /\ lookups' = << >>
    /\ submitLog' = << >>
    /\ waitTimeout' = FALSE
    /\ IF page = "null" THEN Catch(rc, f + 1, Revisado(stats))
       ELSE /\ failures' = f
            /\ delays' = DelaysSoFar(rc)
            /\ outcome' = NoOutcome
            /\ pc' = IF UrlIncludesPortal(pageUrl) THEN "select" ELSE "goto"

\* A top-level call searchExpediente(e, c) of the driver.
searchExpediente(e, c) ==
    /\ pc = "idle"
    /\ stats.totalRevisados + maxRetries + 1 <= MaxRevisados
    /\ expediente' = e
    /\ costoGuardado' = c
    /\ base' = stats
    /\ attempts' = 1
    /\ row' = NoRow
    /\ searchResult' = SinDatos
    /\ acceptCalls' = 0
    /\ acceptReturn' = "none"
    /\ acceptClicks' = 0
    /\ confirmClicks' = 0
    /\ Invocation(0, 0)
    /\ UNCHANGED << session, initResult >>
    /\ statsReset' = FALSE
    /\ Hold
    /\ UNCHANGED << lifecycle, services >>

\* The wait of retryDelay is over: return this.searchExpediente(expediente,
\* costoGuardado, retryCount + 1).
Retry ==
    /\ pc = "retryDelay"
    /\ attempts' = attempts + 1
    /\ Invocation(retryCount + 1, failures)
    /\ UNCHANGED << session, request, row, searchResult, initResult, base,
                    accepted >>
    /\ Hold
    /\ UNCHANGED << statsReset, lifecycle, services >>

\* await this.page.goto(pendientes): the page lands on the pending-services
\* view, or the navigation throws.
Goto ==
    /\ pc = "goto"
    /\ \E ok \in PageOk :
          IF ok
          THEN /\ pageUrl' = PendientesUrl
               /\ pc' = "select"
               /\ UNCHANGED << failures, outcome, delays >>
          ELSE /\ pageUrl' = pageUrl
               /\ Catch(retryCount, failures + 1, stats)
    /\ UNCHANGED << browser, page, stats, request, retryCount, lookup, row,
                    searchResult, initResult, base, attempts, accepted >>
    /\ Hold
    /\ UNCHANGED << statsReset, lifecycle, services >>

\* Seeded defect: a lookup that throws ends the attempt.
Select_ThrowFails ==
    /\ pc = "select"
    /\ \E r \in PageGives({"element", "null", "throws"}) :
          /\ lookups' = Append(lookups, r)
          /\ IF r = "element"
             THEN /\ inputElement' = selIdx
                  /\ selIdx' = selIdx
                  /\ pc' = "clear"
                  /\ UNCHANGED << failures, outcome, delays >>
             ELSE IF selIdx < Len(inputSelectors) /\ r # "throws"
             THEN /\ selIdx' = selIdx + 1
                  /\ inputElement' = inputElement
                  /\ pc' = "select"
                  /\ UNCHANGED << failures, outcome, delays >>
             ELSE /\ UNCHANGED << selIdx, inputElement >>
                  /\ Catch(retryCount, failures + 1, stats)
    /\ UNCHANGED << session, stats, request, retryCount, submitVia, row,
                    searchResult, initResult, base, attempts, accepted,
                    submitLog, waitTimeout >>
    /\ Hold
    /\ UNCHANGED << statsReset, lifecycle, services >>

\* await this.page.$(sel) for the candidate selIdx: an element, null, or an
\* exception that is swallowed; after the last candidate a null
\* inputElement throws.
Select ==
    /\ pc = "select"
    /\ \E r \in PageGives({"element", "null", "throws"}) :
          /\ lookups' = Append(lookups, r)
          /\ IF r = "element"
             THEN /\ inputElement' = selIdx
                  /\ selIdx' = selIdx
                  /\ pc' = "clear"
                  /\ UNCHANGED << failures, outcome, delays >>
             ELSE IF selIdx < Len(inputSelectors)
             THEN /\ selIdx' = selIdx + 1
                  /\ inputElement' = inputElement
                  /\ pc' = "select"
                  /\ UNCHANGED << failures, outcome, delays >>
             ELSE /\ UNCHANGED << selIdx, inputElement >>
                  /\ Catch(retryCount, failures + 1, stats)
    /\ UNCHANGED << session, stats, request, retryCount, submitVia, row,
                    searchResult, initResult, base, attempts, accepted,
                    submitLog, waitTimeout >>
    /\ Hold
    /\ UNCHANGED << statsReset, lifecycle, services >>

\* await inputElement.click({clickCount: 3}), the wait, the evaluate that
\* empties the field.
ClearInput ==
    /\ pc = "clear"
    /\ \E ok \in PageOk :
          IF ok
          THEN pc' = "type" /\ UNCHANGED << failures, outcome, delays >>
          ELSE Catch(retryCount, failures + 1, stats)
    /\ lookups' = << >>
    /\ UNCHANGED << session, stats, request, retryCount, selIdx, inputElement,
                    submitVia, row, searchResult, initResult, base, attempts,
                    accepted, submitLog, waitTimeout >>
    /\ Hold
    /\ UNCHANGED << statsReset, lifecycle, services >>

\* await this.page.keyboard.type(char) for every character of the id.
TypeExpediente ==
    /\ pc = "type"
    /\ \E ok \in PageOk :
          IF ok
          THEN pc' = "submit" /\ UNCHANGED << failures, outcome, delays >>
          ELSE Catch(retryCount, failures + 1, stats)
    /\ UNCHANGED << session, stats, request, retryCount, lookup, row,
                    searchResult, initResult, base, attempts, accepted >>
    /\ Hold
    /\ UNCHANGED << statsReset, lifecycle, services >>

\* What the submission did, given what page.$ gave for the search button
\* and whether the click, Enter and Enter in the inner catch went through:
\* the lookup, then the click or Enter, then Enter again when one of them
\* threw.
SubmitTry(boton, clickOk, enterOk) ==
    IF boton = "element"
    THEN << "element", IF clickOk THEN "click" ELSE "clickThrows" >>
    ELSE IF boton = "null"
    THEN << "null", IF enterOk THEN "enter" ELSE "enterThrows" >>
    ELSE << "throws" >>

Last(s) == s[Len(s)]

Submitted(log) == Last(log) \in {"click", "enter"}

\* Seeded defect: the inner catch does not press Enter.
SubmitLog_SinCatch(boton, clickOk, enterOk, enterCatchOk) ==
    SubmitTry(boton, clickOk, enterOk)

SubmitLog(boton, clickOk, enterOk, enterCatchOk) ==
    LET try == SubmitTry(boton, clickOk, enterOk)
    IN  IF Submitted(try) THEN try
        ELSE Append(try, IF enterCatchOk THEN "enter" ELSE "enterThrows")

\* The search button or Enter: the button is clicked when page.$ gives it;
\* Enter is pressed when it gives null, and in the inner catch when the
\* lookup, the click or the first Enter throws.  Enter throwing in the
\* inner catch ends the attempt.
SubmitSearch ==
    /\ pc = "submit"
    /\ \E boton \in PageGives({"element", "null", "throws"}),
          clickOk \in PageOk, enterOk \in PageOk, enterCatchOk \in PageOk :
          LET log == SubmitLog(boton, clickOk, enterOk, enterCatchOk)
          IN  /\ submitLog' = log
              /\ IF Submitted(log)
                 THEN /\ submitVia' = Last(log)
                      /\ pc' = "wait"
                      /\ UNCHANGED << failures, outcome, delays >>
                 ELSE /\ submitVia' = submitVia
                      /\ Catch(retryCount, failures + 1, stats)
    /\ UNCHANGED << session, stats, request, retryCount, selIdx, inputElement,
                    lookups, row, searchResult, initResult, base, attempts,
                    accepted, waitTimeout >>
    /\ Hold
    /\ UNCHANGED << statsReset, lifecycle, services >>

\* Seeded defect: a timeout of the wait ends the attempt.
WaitResults_TimeoutFails ==
    /\ pc = "wait"
    /\ \E timeout \in BOOLEAN :
          /\ waitTimeout' = timeout
          /\ IF timeout
             THEN Catch(retryCount, failures + 1, stats)
             ELSE pc' = "evaluate" /\ UNCHANGED << failures, outcome, delays >>
    /\ submitLog' = << >>
    /\ UNCHANGED << session, stats, request, retryCount, selIdx, inputElement,
                    submitVia, lookups, row, searchResult, initResult, base,
                    attempts, accepted >>
    /\ Hold
    /\ UNCHANGED << statsReset, lifecycle, services >>

\* await this.page.waitForSelector(row or .no-results, 5000): a timeout is
\* swallowed; then the wait of 1500 ms.
WaitResults ==
    /\ pc = "wait"
    /\ \E timeout \in BOOLEAN :
          /\ waitTimeout' = timeout
          /\ pc' = "evaluate"
    /\ submitLog' = << >>
    /\ UNCHANGED << session, stats, request, retryCount, selIdx, inputElement,
                    submitVia, lookups, row, searchResult, outcome,
                    initResult, base, attempts, failures, delays, accepted >>
    /\ Hold
    /\ UNCHANGED << statsReset, lifecycle, services >>

\* Seeded defect: the counters are incremented before the page is
\* evaluated, so an evaluation that throws has counted already.
Evaluate_CuentaAntes ==
    /\ pc = "evaluate"
    /\ \E thrown \in PageThrows, r \in Rows :
          IF thrown
          THEN /\ UNCHANGED << row, searchResult, acceptCalls >>
               /\ stats' = [stats EXCEPT !.totalConCosto = @ + 1,
                                         !.totalAceptados = @ + 1]
               /\ Catch(retryCount, failures + 1, stats')
          ELSE /\ row' = r
               /\ searchResult' = EvaluateRow(r, costoGuardado)
               /\ stats' = ActualizarStats(stats, searchResult')
               /\ failures' = failures
               /\ delays' = delays
               /\ IF searchResult'.hayDatos /\ searchResult'.costosCoinciden
                  THEN /\ acceptCalls' = acceptCalls + 1
                       /\ pc' = "acceptClick"
                       /\ outcome' = NoOutcome
                  ELSE /\ acceptCalls' = acceptCalls
                       /\ Return(searchResult', stats')
    /\ UNCHANGED << session, request, retryCount, lookup, initResult, base,
                    attempts, acceptClicks, confirmClicks, acceptReturn >>
    /\ Hold
    /\ UNCHANGED << statsReset, lifecycle, services >>

\* await this.page.evaluate(...) and the block that follows it: the update
\* of the counters, then aceptarExpediente up to its first await on a
\* match, the return otherwise.
Evaluate ==
    /\ pc = "evaluate"
    /\ \E thrown \in PageThrows, r \in Rows :
          IF thrown
          THEN /\ UNCHANGED << stats, row, searchResult, acceptCalls >>
               /\ Catch(retryCount, failures + 1, stats)
          ELSE /\ row' = r
               /\ searchResult' = EvaluateRow(r, costoGuardado)
               /\ stats' = ActualizarStats(stats, searchResult')
               /\ failures' = failures
               /\ delays' = delays
               /\ IF searchResult'.hayDatos /\ searchResult'.costosCoinciden
                  THEN /\ acceptCalls' = acceptCalls + 1
                       /\ pc' = "acceptClick"
                       /\ outcome' = NoOutcome
                  ELSE /\ acceptCalls' = acceptCalls
                       /\ Return(searchResult', stats')
    /\ UNCHANGED << session, request, retryCount, lookup, initResult, base,
                    attempts, acceptClicks, confirmClicks, acceptReturn >>
    /\ Hold
    /\ UNCHANGED << statsReset, lifecycle, services >>

(***************************************************************************)
(* aceptarExpediente, called from searchExpediente on a match.             *)
(***************************************************************************)
\* Seeded defect: a failure of the acceptance reaches the catch block of
\* searchExpediente.
AcceptFailed_Reintenta ==
    /\ acceptReturn' = "false"
    /\ searchResult' = MarcarErrorAceptacion(searchResult)
    /\ Catch(retryCount, failures + 1, stats)

\* return false from the inner catch: the result is marked and
\* searchExpediente, which does not look at what aceptarExpediente returns,
\* returns it.
AcceptFailed ==
    /\ acceptReturn' = "false"
    /\ failures' = failures
    /\ delays' = delays
    /\ searchResult' = MarcarErrorAceptacion(searchResult)
    /\ Return(MarcarErrorAceptacion(searchResult), stats)

\* Seeded defect: the confirmation is tried although the accept control was
\* not found.
AcceptClick_SinBoton ==
    /\ pc = "acceptClick"
    /\ stats' = stats
    /\ \E r \in PageGives({"clicked", "notFound", "throws"}) :
          IF r \in {"clicked", "notFound"}
          THEN /\ acceptClicks' = IF r = "clicked" THEN acceptClicks + 1
                                  ELSE acceptClicks
               /\ pc' = "confirm"
               /\ UNCHANGED << searchResult, outcome, failures, acceptReturn,
                            delays >>
          ELSE /\ acceptClicks' = acceptClicks
               /\ AcceptFailed
    /\ UNCHANGED << session, request, retryCount, lookup, row, initResult,
                    base, attempts, acceptCalls, confirmClicks >>
    /\ Hold
    /\ UNCHANGED << statsReset, lifecycle, services >>

\* The first page.evaluate: the accept control of the row is clicked, is not
\* found, or the evaluation throws.
AcceptClick ==
    /\ pc = "acceptClick"
    /\ stats' = stats
    /\ \E r \in PageGives({"clicked", "notFound", "throws"}) :
          IF r = "clicked"
          THEN /\ acceptClicks' = acceptClicks + 1
               /\ pc' = "confirm"
               /\ UNCHANGED << searchResult, outcome, failures, acceptReturn,
                            delays >>
          ELSE /\ acceptClicks' = acceptClicks
               /\ AcceptFailed
    /\ UNCHANGED << session, request, retryCount, lookup, row, initResult,
                    base, attempts, acceptCalls, confirmClicks >>
    /\ Hold
    /\ UNCHANGED << statsReset, lifecycle, services >>

\* After the wait of 2000 ms, the second page.evaluate: the confirm control
\* of the modal is clicked, is not found, or the evaluation throws; then
\* aceptarExpediente returns and searchExpediente returns the result.
ConfirmClick ==
    /\ pc = "confirm"
    /\ stats' = stats
    /\ \E r \in PageGives({"clicked", "notFound", "throws"}) :
          IF r = "clicked"
          THEN /\ confirmClicks' = confirmClicks + 1
               /\ acceptReturn' = "true"
               /\ failures' = failures
               /\ delays' = delays
               /\ searchResult' = searchResult
               /\ Return(searchResult, stats)
          ELSE /\ confirmClicks' = confirmClicks
               /\ AcceptFailed
    /\ UNCHANGED << session, request, retryCount, lookup, row, initResult,
                    base, attempts, acceptCalls, acceptClicks >>
    /\ Hold
    /\ UNCHANGED << statsReset, lifecycle, services >>

(***************************************************************************)
(* resetStats, initialize, close: issued by the driver between two calls.  *)
(***************************************************************************)
\* Seeded defect: only totalRevisados is set to 0.
resetStats_SoloRevisados ==
    /\ pc = "idle"
    /\ stats' = [stats EXCEPT !.totalRevisados = 0]
    /\ UNCHANGED << session, pc, request, retryCount, lookup, row,
                    searchResult, outcome, initResult, base, attempts,
                    failures, delays, accepted >>
    /\ held' = NoHeld
    /\ statsReset' = TRUE
    /\ UNCHANGED << lifecycle, services >>

resetStats ==
    /\ pc = "idle"
    /\ stats' = ZeroStats
    /\ UNCHANGED << session, pc, request, retryCount, lookup, row,
                    searchResult, outcome, initResult, base, attempts,
                    failures, delays, accepted >>
    /\ held' = NoHeld
    /\ statsReset' = TRUE
    /\ UNCHANGED << lifecycle, services >>

\* resetStats() called while a searchExpediente call is suspended at an
\* await: this.stats is replaced by a new object under the running call.
resetStatsSuspended ==
    /\ pc # "idle"
    /\ stats' = ZeroStats
    /\ held' = NoHeld
    /\ UNCHANGED << session, pc, request, retryCount, lookup, row,
                    searchResult, outcome, initResult, base, attempts,
                    failures, delays, accepted, statsReset, lifecycle,
                    services >>

\* What can happen in initialize(): no browser found or the launch fails
\* (nothing assigned), newPage fails (this.browser assigned), login fails
\* before or after the portal was loaded (this.browser and this.page
\* assigned), login succeeds.  Every failure is rethrown to the caller.
InitializeResults ==
    {"noBrowser", "launchFails", "newPageFails", "loginFailsBlank",
     "loginFailsPortal", "loggedIn"}

initialize ==
    /\ pc = "idle"
    /\ \E r \in InitializeResults :
          /\ browser' = IF r \in {"noBrowser", "launchFails"} THEN browser ELSE "open"
          /\ page' = IF r \in {"noBrowser", "launchFails", "newPageFails"}
                     THEN page ELSE "open"
          /\ pageUrl' = CASE r \in {"noBrowser", "launchFails", "newPageFails"} -> pageUrl
                          [] r = "loginFailsBlank" -> BlankUrl
                          [] OTHER -> PortalUrl
          /\ initResult' = IF r = "loggedIn" THEN "true" ELSE "raised"
    /\ UNCHANGED << stats, pc, request, retryCount, lookup, row, searchResult,
                    outcome, base, attempts, failures, delays, accepted >>
    /\ UNCHANGED << held, statsReset, lifecycle, services >>

\* close(): nothing when this.browser is null.
close ==
    /\ pc = "idle"
    /\ IF browser # "null"
       THEN browser' = "null" /\ page' = "null" /\ pageUrl' = NoUrl
       ELSE UNCHANGED session
    /\ UNCHANGED << stats, pc, request, retryCount, lookup, row, searchResult,
                    outcome, initResult, base, attempts, failures, delays, accepted >>
    /\ UNCHANGED << held, statsReset, lifecycle, services >>

(***************************************************************************)
(* initialize(), login() and close(), await by await.                      *)
(***************************************************************************)
\* if (!credentials)
SinCredenciales(cr) == cr.isNull

\* Seeded defect: the presence of the password input is read as success.
isLoggedIn_Invertido(field) == field # "absent"

\* !document.querySelector('input[formcontrolname="password"]')
isLoggedIn(field) == field = "absent"

\* Seeded defect: initialize() returns false instead of throwing.
InitializeThrows_DevuelveFalse(why) ==
    /\ ipc' = "idle"
    /\ initResult' = "false"
    /\ initFailure' = why

\* The catch block of initialize(): whatever was thrown, an Error is thrown
\* to the caller; this.browser and this.page stay as they are.
InitializeThrows(why) ==
    /\ ipc' = "idle"
    /\ initResult' = "raised"
    /\ initFailure' = why

\* The catch block of login() rethrows, into the catch block of initialize().
LoginThrows(why) ==
    /\ loginResult' = "raised"
    /\ InitializeThrows(why)

\* A call initialize() of the driver, up to await this.getBrowserPath().
initializeCall ==
    /\ ipc = "idle"
    /\ IF browser = "null" THEN TRUE ELSE leaked < MaxLeaked
    /\ ipc' = "getBrowserPath"
    /\ initResult' = "none"
    /\ launches' = 0
    /\ logins' = 0
    /\ navigated' = FALSE
    /\ typed' = FALSE
    /\ passwordField' = "unknown"
    /\ loginResult' = "none"
    /\ initFailure' = "none"
    /\ closes' = 0
    /\ UNCHANGED << session, search, services, credentials, leaked, closeResult >>

\* getBrowserPath() gives a path or throws; with a path puppeteer.launch is
\* called.
GetBrowserPath ==
    /\ ipc = "getBrowserPath"
    /\ \E found \in BOOLEAN :
          IF found
          THEN /\ launches' = launches + 1
               /\ ipc' = "launch"
               /\ UNCHANGED << initResult, initFailure >>
          ELSE /\ launches' = launches
               /\ InitializeThrows("noBrowser")
    /\ UNCHANGED << session, search, services, credentials, leaked, logins, navigated,
                    typed, passwordField, loginResult, closes, closeResult >>

\* this.browser = await puppeteer.launch(...): the new process replaces
\* whatever this.browser named, which keeps running; then newPage is called.
Launch ==
    /\ ipc = "launch"
    /\ \E ok \in BOOLEAN :
          IF ok
          THEN /\ browser' = "open"
               /\ leaked' = IF browser = "open" THEN leaked + 1 ELSE leaked
               /\ ipc' = "newPage"
               /\ UNCHANGED << initResult, initFailure >>
          ELSE /\ UNCHANGED << browser, leaked >>
               /\ InitializeThrows("launch")
    /\ UNCHANGED << page, pageUrl, search, services, credentials, launches, logins,
                    navigated, typed, passwordField, loginResult, closes,
                    closeResult >>

\* this.page = await this.browser.newPage(), the timeouts, and login() up to
\* its first await: the credentials are read and, unless they are null,
\* page.goto of the portal is called.
NewPage ==
    /\ ipc = "newPage"
    /\ \E ok \in BOOLEAN, cr \in CredentialsStored :
          IF ~ok
          THEN /\ UNCHANGED << page, pageUrl, credentials, logins, navigated,
                               loginResult >>
               /\ InitializeThrows("newPage")
          ELSE /\ page' = "open"
               /\ pageUrl' = BlankUrl
               /\ credentials' = cr
               /\ logins' = logins + 1
               /\ IF SinCredenciales(cr)
                  THEN /\ navigated' = navigated
                       /\ LoginThrows("missingCredentials")
                  ELSE /\ navigated' = TRUE
                       /\ ipc' = "loginGoto"
                       /\ UNCHANGED << initResult, initFailure, loginResult >>
    /\ UNCHANGED << browser, search, services, leaked, launches, typed, passwordField,
                    closes, closeResult >>

\* A step of login() whose awaited page operation succeeds, to the next
\* await, or throws.
LoginStep(from, to) ==
    /\ ipc = from
    /\ \E ok \in BOOLEAN :
          IF ok
          THEN /\ ipc' = to
               /\ UNCHANGED << initResult, initFailure, loginResult >>
          ELSE LoginThrows("loginPage")

\* await this.page.goto(portal, networkidle2).
LoginGoto ==
    /\ LoginStep("loginGoto", "loginWaitFields")
    /\ pageUrl' = IF ipc' = "loginWaitFields" THEN PortalUrl ELSE pageUrl
    /\ UNCHANGED << browser, page, search, services, credentials, leaked, launches,
                    logins, navigated, typed, passwordField, closes,
                    closeResult >>

\* await this.page.waitForSelector of the username and password inputs;
\* then page.type is called.
LoginWaitFields ==
    /\ LoginStep("loginWaitFields", "loginType")
    /\ typed' = (ipc' = "loginType")
    /\ UNCHANGED << session, search, services, credentials, leaked, launches, logins,
                    navigated, passwordField, closes, closeResult >>

\* await this.page.type of the username and of the password.
LoginType ==
    /\ LoginStep("loginType", "loginSubmit")
    /\ UNCHANGED << session, search, services, credentials, leaked, launches, logins,
                    navigated, typed, passwordField, closes, closeResult >>

\* await this.page.click('button[type="submit"]').
LoginSubmit ==
    /\ LoginStep("loginSubmit", "loginNavigation")
    /\ UNCHANGED << session, search, services, credentials, leaked, launches, logins,
                    navigated, typed, passwordField, closes, closeResult >>

\* await this.page.waitForNavigation(networkidle2).
LoginWaitNavigation ==
    /\ LoginStep("loginNavigation", "loginEvaluate")
    /\ UNCHANGED << session, search, services, credentials, leaked, launches, logins,
                    navigated, typed, passwordField, closes, closeResult >>

\* isLoggedIn = await this.page.evaluate(...): the password input is absent
\* or present, or the evaluation throws; 'Login fallido' when not logged in.
LoginEvaluate ==
    /\ ipc = "loginEvaluate"
    /\ \E r \in {"absent", "present", "throws"} :
          IF r = "throws"
          THEN /\ passwordField' = passwordField
               /\ LoginThrows("loginPage")
          ELSE /\ passwordField' = r
               /\ IF isLoggedIn(r)
                  THEN /\ ipc' = "loginSettle"
                       /\ UNCHANGED << initResult, initFailure, loginResult >>
                  ELSE LoginThrows("loginFailed")
    /\ UNCHANGED << session, search, services, credentials, leaked, launches, logins,
                    navigated, typed, closes, closeResult >>

\* await this.delay(2000); return true, which initialize() returns.
LoginSettle ==
    /\ ipc = "loginSettle"
    /\ loginResult' = "true"
    /\ initResult' = "true"
    /\ ipc' = "idle"
    /\ UNCHANGED << session, search, services, credentials, leaked, launches, logins,
                    navigated, typed, passwordField, initFailure, closes,
                    closeResult >>

\* One more close() in a row has returned.
Closed(n) == IF n < 2 THEN n + 1 ELSE 2

\* A call close() of the driver: nothing to do when this.browser is null,
\* the wait of 2000 ms otherwise.
closeCall ==
    /\ ipc = "idle"
    /\ IF browser # "null"
       THEN /\ ipc' = "closeDelay"
            /\ closeResult' = "none"
            /\ closes' = closes
       ELSE /\ ipc' = "idle"
            /\ closeResult' = "returned"
            /\ closes' = Closed(closes)
    /\ UNCHANGED << session, search, services, initResult, credentials, leaked,
                    launches, logins, navigated, typed, passwordField,
                    loginResult, initFailure >>

\* The wait is over: await this.browser.close().
CloseDelay ==
    /\ ipc = "closeDelay"
    /\ ipc' = "browserClose"
    /\ UNCHANGED << session, search, services, initResult, credentials, leaked,
                    launches, logins, navigated, typed, passwordField,
                    loginResult, initFailure, closes, closeResult >>

\* Seeded defect: the references are kept after the browser was closed.
BrowserClose_SinLiberar ==
    /\ ipc = "browserClose"
    /\ ipc' = "idle"
    /\ closeResult' = "returned"
    /\ closes' = Closed(closes)
    /\ UNCHANGED << session, search, services, initResult, credentials, leaked,
                    launches, logins, navigated, typed, passwordField,
                    loginResult, initFailure >>

\* The browser is closed: this.browser = null; this.page = null.
BrowserClose ==
    /\ ipc = "browserClose"
    /\ browser' = "null"
    /\ page' = "null"
    /\ pageUrl' = NoUrl
    /\ ipc' = "idle"
    /\ closeResult' = "returned"
    /\ closes' = Closed(closes)
    /\ UNCHANGED << search, services, initResult, credentials, leaked, launches, logins,
                    navigated, typed, passwordField, loginResult, initFailure >>

(***************************************************************************)
(* ApiService.request.                                                     *)
(***************************************************************************)
\* A call request(config) of a client of the service, up to await axios.
apiRequestStart(method) ==
    /\ apc = "idle"
    /\ apiMethod' = method
    /\ apiRetryCount' = 0
    /\ apiCalls' = 1
    /\ apiWaited' = 0
    /\ apiError' = NoApiError
    /\ apiResponse' = NoApiResponse
    /\ apiResult' = NoApiResult
    /\ apc' = "axios"

\* A call request(config) of a client outside this model.
apiRequest(method) ==
    /\ apiRequestStart(method)
    /\ UNCHANGED << session, search, lifecycle, initResult, license, config,
                    excel, licsvc >>

\* await axios(finalConfig) resolves, and response.data is returned, or
\* rejects: the catch block returns the server's failure, waits to retry, or
\* returns the failure.
AxiosSettles ==
    /\ apc = "axios"
    /\ \E ok \in BOOLEAN, data \in ApiData, err \in ApiErrors :
          IF ok
          THEN /\ apiResponse' = data
               /\ apiError' = NoApiError
               /\ apiResult' = ApiSuccess(data)
               /\ apc' = "idle"
          ELSE /\ apiResponse' = NoApiResponse
               /\ apiError' = err
               /\ IF err.response
                  THEN apiResult' = ApiServerFailure(err) /\ apc' = "idle"
                  ELSE IF ApiRetryAllowed(apiRetryCount, err)
                  THEN apiResult' = apiResult /\ apc' = "retryDelay"
                  ELSE apiResult' = ApiFailure(err) /\ apc' = "idle"
    /\ UNCHANGED << apiMethod, apiRetryCount, apiCalls, apiWaited >>
    /\ UNCHANGED << session, search, lifecycle, initResult, license, config,
                    excel, licsvc >>

\* The wait of retryDelay is over: return this.request(config,
\* retryCount + 1), up to await axios.
ApiRetry ==
    /\ apc = "retryDelay"
    /\ apiWaited' = apiWaited + apiRetryDelay
    /\ apiRetryCount' = apiRetryCount + 1
    /\ apiCalls' = apiCalls + 1
    /\ apc' = "axios"
    /\ UNCHANGED << apiMethod, apiError, apiResponse, apiResult >>
    /\ UNCHANGED << session, search, lifecycle, initResult, license, config,
                    excel, licsvc >>

(***************************************************************************)
(* LicenseModel.                                                           *)
(***************************************************************************)
\* new LicenseModel({expiresAt: e}).
newLicenseModel(e) ==
    /\ licExpiresAt' = e
    /\ licExpiredAt' = 0
    /\ licExpired' = "none"
    /\ licDaysAt' = 0
    /\ licDays' = NoDays
    /\ UNCHANGED << session, search, lifecycle, initResult, api, config,
                    excel, licsvc >>

\* A call isExpired(currentDate).
isExpiredCall(now) ==
    /\ licExpiredAt' = now
    /\ licExpired' = BoolText(isExpired(licExpiresAt, now))
    /\ UNCHANGED << licExpiresAt, licDaysAt, licDays >>
    /\ UNCHANGED << session, search, lifecycle, initResult, api, config,
                    excel, licsvc >>

\* A call getDaysRemaining(currentDate).
getDaysRemainingCall(now) ==
    /\ licDaysAt' = now
    /\ licDays' = [called |-> TRUE,
                   nan |-> getDaysRemaining(licExpiresAt, now).nan,
                   val |-> getDaysRemaining(licExpiresAt, now).val]
    /\ UNCHANGED << licExpiresAt, licExpiredAt, licExpired >>
    /\ UNCHANGED << session, search, lifecycle, initResult, api, config,
                    excel, licsvc >>

(***************************************************************************)
(* ConfigService.                                                          *)
(***************************************************************************)
\* saveCredentials(u, p): the test of the arguments, the two writes to the
\* store, each of which the store accepts or throws on, and the catch block,
\* which writes the backup file and rethrows.
saveCredentials(u, p) ==
    /\ cfgUsername' = u
    /\ cfgPassword' = p
    /\ cfgBefore' = Stored(cfgCredentials, cfgIsConfigured)
    /\ \E firstOk \in BOOLEAN, secondOk \in BOOLEAN :
          IF CredentialsRequired(u, p)
          THEN /\ UNCHANGED << cfgCredentials, cfgIsConfigured >>
               /\ cfgRefused' = FALSE
               /\ cfgResult' = "raised"
          ELSE IF ~firstOk
          THEN /\ UNCHANGED << cfgCredentials, cfgIsConfigured >>
               /\ cfgRefused' = TRUE
               /\ cfgResult' = "raised"
          ELSE IF ~secondOk
          THEN /\ cfgCredentials' = Credentials(FALSE, u, p)
               /\ cfgIsConfigured' = cfgIsConfigured
               /\ cfgRefused' = TRUE
               /\ cfgResult' = "raised"
          ELSE /\ cfgCredentials' = Credentials(FALSE, u, p)
               /\ cfgIsConfigured' = TRUE
               /\ cfgRefused' = FALSE
               /\ cfgResult' = "true"
    /\ UNCHANGED << session, search, lifecycle, initResult, api, license,
                    excel, licsvc >>

\* set('credentials', cr): the store takes the value, or throws and false is
\* returned.
configSetCredentials(cr) ==
    /\ \E ok \in BOOLEAN :
          cfgCredentials' = IF ok THEN cr ELSE cfgCredentials
    /\ cfgResult' = "none"
    /\ UNCHANGED << cfgIsConfigured, cfgUsername, cfgPassword, cfgBefore,
                    cfgRefused >>
    /\ UNCHANGED << session, search, lifecycle, initResult, api, license,
                    excel, licsvc >>

\* set('isConfigured', b).
configSetIsConfigured(b) ==
    /\ \E ok \in BOOLEAN :
          cfgIsConfigured' = IF ok THEN b ELSE cfgIsConfigured
    /\ cfgResult' = "none"
    /\ UNCHANGED << cfgCredentials, cfgUsername, cfgPassword, cfgBefore,
                    cfgRefused >>
    /\ UNCHANGED << session, search, lifecycle, initResult, api, license,
                    excel, licsvc >>

\* reset(): this.store.clear() puts the defaults back, or throws and false is
\* returned.
configReset ==
    /\ \E ok \in BOOLEAN :
          IF ok
          THEN cfgCredentials' = NullCredentials /\ cfgIsConfigured' = FALSE
          ELSE UNCHANGED << cfgCredentials, cfgIsConfigured >>
    /\ cfgResult' = "none"
    /\ UNCHANGED << cfgUsername, cfgPassword, cfgBefore, cfgRefused >>
    /\ UNCHANGED << session, search, lifecycle, initResult, api, license,
                    excel, licsvc >>

(***************************************************************************)
(* ExcelService.                                                           *)
(***************************************************************************)
\* The file at filePath is written by the user: a row whose column A holds c
\* is added to its first worksheet.
appendRow(c) ==
    /\ Len(xlsSheet) < MaxRows
    /\ xlsSheet' = Append(xlsSheet, c)
    /\ xlsResult' = NoRead
    /\ UNCHANGED << session, search, lifecycle, initResult, api, license,
                    config, licsvc >>

\* readExpedientesAndRows(filePath): the file is missing, cannot be read or
\* has no worksheet, and the object of ErrorHandler.handleError is returned;
\* or its rows are read.
readExpedientesAndRows ==
    /\ \E r \in {"read", "noFile", "unreadable", "noWorksheet"} :
          xlsResult' = IF r = "read"
                       THEN [kind |-> "filas", filas |-> Filas(xlsSheet, 1)]
                       ELSE [kind |-> "error", filas |-> << >>]
    /\ UNCHANGED << xlsSheet >>
    /\ UNCHANGED << session, search, lifecycle, initResult, api, license,
                    config, licsvc >>

(***************************************************************************)
(* LicenseService.                                                         *)
(***************************************************************************)
ApiSettled == apc = "idle" /\ apiResult.kind # "none"

\* checkInitialLicense() up to its first await: without a stored token it
\* returns at once; with one, validateWithServer sends the validity request.
CheckStart ==
    /\ lspc = "idle"
    /\ apc = "idle"
    /\ lsCall' = "checkInitialLicense"
    /\ lsReplies' = << >>
    /\ lsSaves' = 0
    /\ UNCHANGED << lsStore, lsToken >>
    /\ IF ~lsStore.has
       THEN /\ lsResult' = LsResult(FALSE, FALSE, TRUE)
            /\ lspc' = "idle"
            /\ lsSent' = << >>
            /\ UNCHANGED api
       ELSE /\ apiRequestStart("get")
            /\ lspc' = "validity"
            /\ lsSent' = << "validity" >>
            /\ lsResult' = NoLsResult

\* A call of checkInitialLicense() by the application.
checkInitialLicense ==
    /\ CheckStart
    /\ UNCHANGED << checkInterval, timers, nextTimer, lsTimerOp, lsTicker >>
    /\ UNCHANGED << session, search, lifecycle, initResult, license, config,
                    excel >>

\* apiService.get has resolved: validateWithServer reads the answer, saves
\* the token when the server finds it active, and checkInitialLicense
\* returns; the writes of the store may fail, which saveValidatedToken
\* swallows.
ValidityResolves ==
    /\ lspc = "validity"
    /\ ApiSettled
    /\ \E body \in LicenseBodies, saved \in BOOLEAN :
          LET status == validateWithServer(apiResult, body)
          IN  /\ lsReplies' = Append(lsReplies,
                                     IF status = "valid" THEN "success"
                                     ELSE IF status = "raised" THEN "raised"
                                     ELSE "failure")
              /\ lsSaves' = IF status = "valid" THEN 2 ELSE 0
              /\ lsStore' = IF status = "valid" /\ saved
                               /\ body = "successExpires"
                            THEN StoredToken(lsStore.token, FALSE)
                            ELSE lsStore
              /\ lsResult' = InitialLicenseResult(status)
    /\ lspc' = "idle"
    /\ UNCHANGED << lsCall, lsToken, lsSent, checkInterval, timers, nextTimer,
                    lsTimerOp, lsTicker >>
    /\ UNCHANGED api
    /\ UNCHANGED << session, search, lifecycle, initResult, license, config,
                    excel >>

\* validateToken(token) up to its first await: an empty token is refused;
\* otherwise redeemToken sends the redeem request.
validateToken(token) ==
    /\ lspc = "idle"
    /\ apc = "idle"
    /\ lsCall' = "validateToken"
    /\ lsToken' = token
    /\ lsReplies' = << >>
    /\ lsSaves' = 0
    /\ IF EmptyToken(token)
       THEN /\ lsResult' = LsResult(FALSE, FALSE, FALSE)
            /\ lspc' = "idle"
            /\ lsSent' = << >>
            /\ UNCHANGED api
       ELSE /\ apiRequestStart("post")
            /\ lspc' = "redeem"
            /\ lsSent' = << "redeem" >>
            /\ lsResult' = NoLsResult
    /\ UNCHANGED << lsStore, checkInterval, timers, nextTimer, lsTimerOp,
                    lsTicker >>
    /\ UNCHANGED << session, search, lifecycle, initResult, license, config,
                    excel >>

\* The token is saved and valid: true is returned.
TokenAccepted(saved) ==
    /\ lsReplies' = Append(lsReplies, "success")
    /\ lsSaves' = lsSaves + 1
    /\ lsStore' = IF saved THEN StoredToken(lsToken, FALSE) ELSE lsStore
    /\ lsResult' = LsResult(TRUE, FALSE, FALSE)
    /\ lspc' = "idle"
    /\ lsSent' = lsSent
    /\ UNCHANGED api

\* The redeem request has resolved: on success redeemToken saves the token
\* and validateToken returns its result; otherwise validateToken sends the
\* validate request.
RedeemResolves ==
    /\ lspc = "redeem"
    /\ ApiSettled
    /\ \E body \in LicenseBodies, saved \in BOOLEAN :
          IF ReportsSuccess(apiResult, body)
          THEN TokenAccepted(saved)
          ELSE /\ lsReplies' = Append(lsReplies, "failure")
               /\ UNCHANGED << lsSaves, lsStore >>
               /\ apiRequestStart("post")
               /\ lspc' = "validate"
               /\ lsSent' = Append(lsSent, "validate")
               /\ lsResult' = NoLsResult
    /\ UNCHANGED << lsCall, lsToken, checkInterval, timers, nextTimer,
                    lsTimerOp, lsTicker >>
    /\ UNCHANGED << session, search, lifecycle, initResult, license, config,
                    excel >>

\* The validate request has resolved: on success the token is saved and
\* valid: true is returned, otherwise valid: false.
ValidateResolves ==
    /\ lspc = "validate"
    /\ ApiSettled
    /\ \E body \in LicenseBodies, saved \in BOOLEAN :
          IF ReportsSuccess(apiResult, body)
          THEN TokenAccepted(saved)
          ELSE /\ lsReplies' = Append(lsReplies, "failure")
               /\ UNCHANGED << lsSaves, lsStore, lsSent >>
               /\ lsResult' = LsResult(FALSE, FALSE, FALSE)
               /\ lspc' = "idle"
               /\ UNCHANGED api
    /\ UNCHANGED << lsCall, lsToken, checkInterval, timers, nextTimer,
                    lsTimerOp, lsTicker >>
    /\ UNCHANGED << session, search, lifecycle, initResult, license, config,
                    excel >>

\* Seeded defect: the previous timer is not cleared.
startPeriodicCheck_SinClear ==
    /\ nextTimer <= MaxTimers
    /\ timers' = timers \cup {nextTimer}
    /\ checkInterval' = nextTimer
    /\ nextTimer' = nextTimer + 1
    /\ lsTimerOp' = IF checkInterval # 0 THEN "restart" ELSE "start"
    /\ lsTicker' = 0
    /\ UNCHANGED << lsStore, lspc, lsCall, lsToken, lsSent, lsReplies, lsSaves,
                    lsResult >>
    /\ UNCHANGED api
    /\ UNCHANGED << session, search, lifecycle, initResult, license, config,
                    excel >>

\* startPeriodicCheck(interval): clearInterval of the timer there is, then
\* this.checkInterval = setInterval(...).
startPeriodicCheck ==
    /\ nextTimer <= MaxTimers
    /\ timers' = (timers \ {checkInterval}) \cup {nextTimer}
    /\ checkInterval' = nextTimer
    /\ nextTimer' = nextTimer + 1
    /\ lsTimerOp' = IF checkInterval # 0 THEN "restart" ELSE "start"
    /\ lsTicker' = 0
    /\ UNCHANGED << lsStore, lspc, lsCall, lsToken, lsSent, lsReplies, lsSaves,
                    lsResult >>
    /\ UNCHANGED api
    /\ UNCHANGED << session, search, lifecycle, initResult, license, config,
                    excel >>

\* stopPeriodicCheck(): clearInterval and this.checkInterval = null when a
\* timer is set.
stopPeriodicCheck ==
    /\ timers' = timers \ {checkInterval}
    /\ checkInterval' = 0
    /\ lsTimerOp' = "stop"
    /\ lsTicker' = 0
    /\ UNCHANGED << lsStore, lspc, lsCall, lsToken, lsSent, lsReplies, lsSaves,
                    lsResult, nextTimer >>
    /\ UNCHANGED api
    /\ UNCHANGED << session, search, lifecycle, initResult, license, config,
                    excel >>

\* The callback of the active timer t runs: await this.checkInitialLicense().
\* The interval is a day, so no check is still running when it fires.
PeriodicCheck(t) ==
    /\ t \in timers
    /\ CheckStart
    /\ lsTimerOp' = "tick"
    /\ lsTicker' = t
    /\ UNCHANGED << checkInterval, timers, nextTimer >>
    /\ UNCHANGED << session, search, lifecycle, initResult, license, config,
                    excel >>

\* Time passes: the stored token is now past its expiresAt.
tokenExpires ==
    /\ lsStore.has
    /\ ~lsStore.expired
    /\ lsStore' = [lsStore EXCEPT !.expired = TRUE]
    /\ UNCHANGED << lspc, lsCall, lsToken, lsSent, lsReplies, lsSaves,
                    lsResult, checkInterval, timers, nextTimer, lsTimerOp,
                    lsTicker >>
    /\ UNCHANGED api
    /\ UNCHANGED << session, search, lifecycle, initResult, license, config,
                    excel >>

(***************************************************************************)
(* Specifications.                                                         *)
(***************************************************************************)
Step ==
    \/ Retry
    \/ Goto
    \/ Select
    \/ ClearInput
    \/ TypeExpediente
    \/ SubmitSearch
    \/ WaitResults
    \/ Evaluate
    \/ AcceptClick
    \/ ConfirmClick

Next ==
    \/ \E e \in Expedientes, c \in CostosGuardados : searchExpediente(e, c)
    \/ Step
    \/ resetStats
    \/ initialize
    \/ close

Spec == Init /\ [][Next]_vars

\* The session alone: initialize(), login() and close() await by await,
\* called one at a time by the driver, with no search in between.
SessionNext ==
    \/ initializeCall
    \/ GetBrowserPath
    \/ Launch
    \/ NewPage
    \/ LoginGoto
    \/ LoginWaitFields
    \/ LoginType
    \/ LoginSubmit
    \/ LoginWaitNavigation
    \/ LoginEvaluate
    \/ LoginSettle
    \/ closeCall
    \/ CloseDelay
    \/ BrowserClose

SessionSpec == Init /\ [][SessionNext]_vars

\* The search with resetStats() called by another handler of the process
\* while a call is suspended.
ResetNext ==
    \/ \E e \in Expedientes, c \in CostosGuardados : searchExpediente(e, c)
    \/ Step
    \/ resetStatsSuspended
    \/ initialize

ResetSpec == Init /\ [][ResetNext]_vars

\* The first call of searchExpediente of a run of the program.
searchExpedienteOnce(e, c) ==
    /\ stats = ZeroStats
    /\ searchExpediente(e, c)

\* One call of searchExpediente with close() called by another handler of
\* the process at any time, the call in flight or not.
CloseNext ==
    \/ \E e \in Expedientes, c \in CostosGuardados : searchExpedienteOnce(e, c)
    \/ Step
    \/ initialize
    \/ closeCall
    \/ CloseDelay
    \/ BrowserClose

CloseSpec == Init /\ [][CloseNext]_vars /\ WF_vars(Step)

\* ApiService alone: requests made one at a time.
ApiNext ==
    \/ \E method \in ApiMethods : apiRequest(method)
    \/ AxiosSettles
    \/ ApiRetry

ApiSpec == Init /\ [][ApiNext]_vars

\* LicenseModel alone.
LicenseNext ==
    \/ \E e \in ExpiresAtValues : newLicenseModel(e)
    \/ \E now \in CurrentDates : isExpiredCall(now)
    \/ \E now \in CurrentDates : getDaysRemainingCall(now)

LicenseSpec == Init /\ [][LicenseNext]_vars

\* ConfigService alone.
ConfigNext ==
    \/ \E u \in Usernames, p \in Passwords : saveCredentials(u, p)
    \/ \E cr \in CredentialsStored : configSetCredentials(cr)
    \/ \E b \in BOOLEAN : configSetIsConfigured(b)
    \/ configReset

ConfigSpec == Init /\ [][ConfigNext]_vars

\* ExcelService alone.
ExcelNext ==
    \/ \E c \in CellValues : appendRow(c)
    \/ readExpedientesAndRows

ExcelSpec == Init /\ [][ExcelNext]_vars

\* LicenseService over ApiService.request.
LicenseServiceNext ==
    \/ \E token \in TokenArgs : validateToken(token)
    \/ RedeemResolves
    \/ ValidateResolves
    \/ checkInitialLicense
    \/ ValidityResolves
    \/ startPeriodicCheck
    \/ stopPeriodicCheck
    \/ \E t \in timers : PeriodicCheck(t)
    \/ tokenExpires
    \/ AxiosSettles
    \/ ApiRetry

LicenseServiceSpec == Init /\ [][LicenseServiceNext]_vars

\* Every awaited page operation and every wait is bounded by a timeout, so a
\* running call always takes its next step.
FairSpec == Spec /\ WF_vars(Step)

(***************************************************************************)
(* Properties.                                                             *)
(***************************************************************************)
\* The last top-level call has returned.
Returned == pc = "idle" /\ outcome.kind = "returned"

\* The last invocation of the returned call evaluated the page.
Evaluated == Returned /\ failures < attempts

\* A no-data row: no row, no cost cell, an empty cost cell, "$0.00" or "$0".
RowSinDatos(r) ==
    \/ r.kind \in {"none", "short"}
    \/ Trim(r.costText) \in {<<>>, <<"$", "0", ".", "0", "0">>, <<"$", "0">>}

\* The acceptance sub-flow ran and did not get through both clicks.
AcceptanceFailed == acceptCalls > 0 /\ (acceptClicks = 0 \/ confirmClicks = 0)

\* C1: a top-level call of searchExpediente increases totalRevisados by
\* exactly 1, whatever number of retries it makes.
C1_RevisadosOncePerCall ==
    Returned => outcome.stats.totalRevisados = base.totalRevisados + 1

\* C2: after any sequence of completed searchExpediente and resetStats calls
\* issued one at a time, totalAceptados <= totalConCosto <= totalRevisados.
C2_StatsOrdered ==
    pc = "idle" =>
        /\ stats.totalAceptados <= stats.totalConCosto
        /\ stats.totalConCosto <= stats.totalRevisados

C2_Witness ==
    /\ Returned
    /\ failures > 0
    /\ stats.totalAceptados > 0
    /\ stats.totalConCosto > stats.totalAceptados
    /\ stats.totalRevisados > stats.totalConCosto

\* C3: searchExpediente never raises to its caller, whatever fails
\* (navigation, selector lookup, typing, submission, evaluation, acceptance,
\* a null page): every call resolves with an outcome object.
C3_NeverRaises ==
    /\ [](outcome.kind # "raised")
    /\ (pc # "idle") ~> Returned

C3_Witness ==
    /\ Returned
    /\ page = "null"
    /\ failures = maxRetries + 1
    /\ outcome.validacion = "Error en consulta"

\* C4: when every attempt of a call fails, the outcome returned has
\* validacion 'Error en consulta', empty costo, estatus, notas,
\* fechaRegistro, servicio and subservicio, and the current stats.
C4_ErrorEnConsulta ==
    [][ (pc # "idle" /\ pc' = "idle" /\ failures' = attempts') =>
            /\ outcome'.kind = "returned"
            /\ outcome'.validacion = "Error en consulta"
            /\ outcome'.costo = <<>>
            /\ outcome'.estatus = ""
            /\ outcome'.notas = ""
            /\ outcome'.fechaRegistro = ""
            /\ outcome'.servicio = ""
            /\ outcome'.subservicio = ""
            /\ outcome'.stats = stats' ]_vars

C4_Witness ==
    /\ Returned
    /\ failures = attempts
    /\ page = "open"
    /\ outcome.validacion = "Error en consulta"
    /\ outcome.stats.totalConCosto > 0

\* C5: a match whose acceptance fails at either step gives validacion
\* 'Error en aceptación'; totalAceptados keeps the increment of the
\* reconciliation; nothing is raised.
C5_ErrorEnAceptacion ==
    (pc = "idle" /\ AcceptanceFailed) =>
        /\ outcome.kind = "returned"
        /\ outcome.validacion = "Error en aceptación"
        /\ outcome.stats.totalAceptados = base.totalAceptados + 1

C5_Witness ==
    /\ Returned
    /\ searchResult.costosCoinciden
    /\ acceptClicks = 1
    /\ confirmClicks = 0
    /\ outcome.validacion = "Error en aceptación"

\* C6: for a no-data row the acceptance is not invoked, totalConCosto and
\* totalAceptados are not incremented, and the outcome is not 'Aceptado'.
C6_SinDatos ==
    (Evaluated /\ RowSinDatos(row)) =>
        /\ acceptCalls = 0
        /\ acceptClicks = 0
        /\ outcome.stats.totalConCosto = base.totalConCosto
        /\ outcome.stats.totalAceptados = base.totalAceptados
        /\ outcome.validacion # "Aceptado"

C6_Witness ==
    /\ Evaluated
    /\ row.kind = "data"
    /\ row.costText = <<"$", "0", ".", "0", "0">>
    /\ outcome.stats.totalRevisados > base.totalRevisados

\* C7: on a match with data present, totalConCosto and totalAceptados are
\* incremented by 1 each and the acceptance is invoked exactly once; both
\* increments are made before the first click of the acceptance.
C7_Match ==
    /\ (Evaluated /\ ~RowSinDatos(row) /\ searchResult.costosCoinciden) =>
            /\ outcome.stats.totalConCosto = base.totalConCosto + 1
            /\ outcome.stats.totalAceptados = base.totalAceptados + 1
            /\ acceptCalls = 1
    /\ (pc \in {"acceptClick", "confirm"}) =>
            /\ stats.totalConCosto = base.totalConCosto + 1
            /\ stats.totalAceptados = base.totalAceptados + 1
            /\ acceptCalls = 1
    /\ (pc = "acceptClick") => acceptClicks = 0

C7_Witness ==
    /\ Evaluated
    /\ ~RowSinDatos(row)
    /\ searchResult.costosCoinciden
    /\ acceptClicks = 1
    /\ confirmClicks = 1
    /\ failures > 0

\* C8: on a non-match with data present, totalConCosto is incremented by 1,
\* totalAceptados is unchanged, the acceptance is never invoked and
\* validacion is 'No aceptado'.
C8_NoMatch ==
    (Evaluated /\ ~RowSinDatos(row) /\ ~searchResult.costosCoinciden) =>
        /\ outcome.stats.totalConCosto = base.totalConCosto + 1
        /\ outcome.stats.totalAceptados = base.totalAceptados
        /\ acceptCalls = 0
        /\ acceptClicks = 0
        /\ confirmClicks = 0
        /\ outcome.validacion = "No aceptado"

C8_Witness ==
    /\ Evaluated
    /\ row.costText = FormatMXN(99999)
    /\ costoGuardado = 100000
    /\ outcome.validacion = "No aceptado"

\* C9: costosCoinciden is true iff the amount of the extracted cost equals
\* the expected cost, with no tolerance.
C9_ExactMatch ==
    (Evaluated /\ ~RowSinDatos(row)) =>
        (searchResult.costosCoinciden <=> row.monto = costoGuardado)

\* C10: the normalization removes the currency symbol and every thousands
\* separator: the value compared against the expected cost is the amount
\* the cost text denotes.
C10_Normalizacion ==
    (row.kind = "data" /\ Trim(row.costText) = FormatMXN(row.monto)) =>
        ParseFloat(costoSistema(row.costText)) = row.monto

\* C11: when the first attempt of a call fails with an exception and no
\* other does, the pipeline ran exactly twice and the call returns what the
\* second attempt found, not 'Error en consulta'.
C11_RetrySucceeds ==
    (Returned /\ failures = 1) =>
        /\ attempts = 2
        /\ Evaluated
        /\ outcome.validacion # "Error en consulta"
        /\ outcome = ResultOutcome(searchResult, outcome.stats)

C11_Witness ==
    /\ Returned
    /\ failures = 1
    /\ attempts = 2
    /\ outcome.validacion = "No aceptado"

\* C12 as stated: one top-level call runs the pipeline at most 3 times in
\* total, the first attempt included.
C12_AtMostThree == attempts <= 3

\* C12 amended: one top-level call runs the pipeline at most maxRetries + 1
\* = 4 times, the first attempt and up to 3 retries, and 'Error en consulta'
\* is returned only after all 4 have failed.
C12_AtMostFour ==
    /\ attempts <= maxRetries + 1
    /\ (Returned /\ outcome.validacion = "Error en consulta") =>
          (attempts = maxRetries + 1 /\ failures = maxRetries + 1)

C12_Witness ==
    /\ Returned
    /\ attempts = 4
    /\ failures = 4
    /\ outcome.validacion = "Error en consulta"

\* C13: resetStats sets the three counters to 0, whatever they were.
C13_ResetZeroes == statsReset => stats = ZeroStats

C13_Witness ==
    /\ statsReset
    /\ stats = ZeroStats
    /\ outcome.kind = "returned"
    /\ outcome.stats.totalRevisados > 1
    /\ outcome.stats.totalConCosto > 0
    /\ outcome.stats.totalAceptados > 0

\* C18: from zeroed counters, one call searchExpediente('123456', 1000)
\* whose row shows "$1,000.00" and whose acceptance succeeds returns
\* validacion 'Aceptado', costo '$1,000.00' and stats {1, 1, 1}.
C18_AceptadoDesdeCero ==
    ( /\ Evaluated
      /\ base = ZeroStats
      /\ expediente = "123456"
      /\ costoGuardado = 100000
      /\ row.costText = FormatMXN(100000)
      /\ acceptClicks = 1
      /\ confirmClicks = 1 ) =>
        /\ outcome.validacion = "Aceptado"
        /\ outcome.costo = FormatMXN(100000)
        /\ outcome.stats = [ totalRevisados |-> 1, totalConCosto |-> 1,
                             totalAceptados |-> 1 ]

\* C19: the stats of an outcome the caller holds stay what they were when
\* the call returned, whatever is called afterwards.
C19_Snapshot == held.has => HeldStats = held.atReturn

C15_MissingCredentials ==
    ( /\ logins = 1
      /\ \/ credentials.isNull
         \/ credentials.username = ""
         \/ credentials.password = "" ) =>
        /\ initFailure = "missingCredentials"
        /\ loginResult = "raised"
        /\ ~navigated
        /\ ~typed

\* C16: login() returns true only when the password input was absent after
\* the submit and the navigation, returns true whenever it was absent, and
\* raises the login-failed error when it was present.
C16_LoginResult ==
    /\ loginResult = "true" => passwordField = "absent"
    /\ passwordField = "present" =>
          (loginResult = "raised" /\ initFailure = "loginFailed")
    /\ (passwordField = "absent" /\ ipc \notin {"loginSettle"}) =>
          loginResult = "true"

C16_Witness ==
    /\ loginResult = "true"
    /\ passwordField = "absent"
    /\ navigated
    /\ typed

\* C17: initialize() launches, then logs in, each at most once per call; it
\* returns true only when login() returned true, and any failure of the
\* discovery, the launch or the login makes it raise.
C17_InitializeOnce ==
    /\ launches <= 1
    /\ logins <= 1
    /\ logins = 1 => launches = 1
    /\ initResult = "true" => (loginResult = "true" /\ initFailure = "none")
    /\ initFailure # "none" => initResult = "raised"
    /\ loginResult = "raised" => initResult = "raised"

C17_Witness ==
    /\ initResult = "raised"
    /\ initFailure = "loginFailed"
    /\ launches = 1
    /\ logins = 1

\* C20: whatever initialize() and close() calls were made, no launched
\* browser is left running that this.browser does not name.
C20_SingleBrowser == leaked = 0

\* The attempt has passed the test of the url and the navigation it leads to.
PastNavigation == pc \in {"select", "clear", "type", "submit", "wait", "evaluate"}

\* C29: an attempt navigates to the pending-services view only when the page
\* is not on that view, and once past that step the page is on the
\* pending-services view, wherever it was before.
C29_EnsurePendientes ==
    /\ pc = "goto" => pageUrl # PendientesUrl
    /\ PastNavigation => pageUrl = PendientesUrl

\* The candidates before the i-th gave no element.
NoElementBefore(i) ==
    \A k \in 1..(i - 1) : lookups[k] \in {"null", "throws"}

C21_CloseInFlight ==
    /\ (pc # "idle" /\ ipc # "idle") ~> Returned
    /\ (pc # "idle" /\ page = "null") ~> Returned
    /\ [][(page = "null" /\ pc' # pc) =>
            /\ pc \in {"goto", "clear", "type", "submit", "evaluate"} =>
                  failures' = failures + 1
            /\ pc \in {"acceptClick", "confirm"} =>
                  (Returned' /\ outcome'.validacion = "Error en aceptación")
            /\ pc = "select" => pc' \notin {"clear"}]_vars

C21_Witness ==
    /\ pc = "retryDelay"
    /\ page = "null"
    /\ closeResult = "returned"
    /\ submitVia = "click"
    /\ failures = 1

\* C22: totalAceptados <= totalConCosto <= totalRevisados in every state,
\* the states of a call in flight included, also when resetStats() runs
\* while a call is suspended at an await.
C22_StatsOrderedInFlight ==
    /\ stats.totalAceptados <= stats.totalConCosto
    /\ stats.totalConCosto <= stats.totalRevisados

\* The running request has resolved.
ApiResolved == apc = "idle" /\ apiResult.kind # "none"

\* C23: ApiService.request never rejects: a call that succeeds resolves with
\* the data of the response, and an error that carries a server response
\* resolves at once, with no retry, with {success: false, status, message}.
C23_RequestResolves ==
    /\ apiResult.kind \in {"none", "data", "object"}
    /\ (apc = "idle" /\ apiCalls > 0) => ApiResolved
    /\ (ApiResolved /\ apiResponse # NoApiResponse) =>
          (apiResult.kind = "data" /\ apiResult.data = apiResponse)
    /\ apiError.response =>
          /\ ApiResolved
          /\ apiResult.kind = "object"
          /\ apiResult.success = "false"
          /\ apiResult.status = apiError.status
          /\ apiResult.message \in {apiError.serverMessage, "Error en el servidor"}
          /\ apiResult.message # ""

C23_Witness ==
    /\ ApiResolved
    /\ apiError.response
    /\ apiError.status = 404
    /\ apiResult.status = 404
    /\ apiResult.message = "Not found"
    /\ apiCalls = 1

\* C24: request retries only errors with no server response that are network
\* errors, after a wait of retryDelay each time; one request makes at most
\* maxRetries + 1 axios calls, resolves with the data of the first call that
\* succeeds and otherwise with {success: false, ...}.
C24_RetryNetworkErrors ==
    /\ apiCalls <= apiMaxRetries + 1
    /\ apiCalls = IF apc = "idle" /\ apiResult.kind = "none" THEN 0
                  ELSE apiRetryCount + 1
    /\ apc = "retryDelay" =>
          /\ ~apiError.response
          /\ \/ apiError.code \in
                  {"ECONNABORTED", "ENOTFOUND", "ETIMEDOUT", "ECONNRESET"}
             \/ apiError.timeout
    /\ apc = "axios" => apiWaited = (apiCalls - 1) * apiRetryDelay
    /\ ApiResolved =>
          /\ apiWaited = (apiCalls - 1) * apiRetryDelay
          /\ IF apiResponse # NoApiResponse
             THEN apiResult.kind = "data" /\ apiResult.data = apiResponse
             ELSE apiResult.kind = "object" /\ apiResult.success = "false"

C24_Witness ==
    /\ ApiResolved
    /\ apiCalls = 4
    /\ apiWaited = 6000
    /\ apiError.code = "ECONNRESET"
    /\ ~apiError.response
    /\ apiResult.success = "false"

\* C25: isExpired(currentDate) returns true when expiresAt is missing or
\* empty or is no parsable date, true when currentDate is after expiresAt,
\* and false otherwise.
C25_IsExpired ==
    licExpired # "none" =>
        (licExpired = "true" <=>
            \/ licExpiresAt = << >>
            \/ DateParse(licExpiresAt).nan
            \/ licExpiredAt > DateParse(licExpiresAt).val)

\* C26: getDaysRemaining(currentDate) returns 0 when expiresAt is missing or
\* is no parsable date, a negative number when expiresAt is in the past, and
\* otherwise the number of days until expiresAt, rounded up.
C26_DaysRemaining ==
    licDays.called =>
        IF licExpiresAt = << >> \/ DateParse(licExpiresAt).nan
        THEN ~licDays.nan /\ licDays.val = 0
        ELSE LET diffTime == DateParse(licExpiresAt).val - licDaysAt
             IN  /\ ~licDays.nan
                 /\ IF diffTime < 0 THEN licDays.val < 0
                    ELSE /\ licDays.val * msPerDay >= diffTime
                         /\ (licDays.val - 1) * msPerDay < diffTime

\* C27: saveCredentials raises when the username or the password is empty and
\* then leaves the stored credentials and isConfigured as they were; with
\* both non-empty and the store accepting the writes it stores {username,
\* password}, sets isConfigured to true and returns true.
C27_SaveCredentials ==
    cfgResult # "none" =>
        /\ (cfgUsername = "" \/ cfgPassword = "") =>
              /\ cfgResult = "raised"
              /\ cfgCredentials = cfgBefore.credentials
              /\ cfgIsConfigured = cfgBefore.isConfigured
        /\ (cfgUsername # "" /\ cfgPassword # "" /\ ~cfgRefused) =>
              /\ cfgResult = "true"
              /\ cfgCredentials = Credentials(FALSE, cfgUsername, cfgPassword)
              /\ cfgIsConfigured

C27_Witness ==
    /\ cfgResult = "raised"
    /\ cfgUsername = "otro"
    /\ cfgPassword = ""
    /\ cfgBefore = Stored(Credentials(FALSE, "testuser", "testpass"), TRUE)
    /\ cfgCredentials = Credentials(FALSE, "testuser", "testpass")
    /\ cfgIsConfigured

\* The value of column A of a row, trimmed, consists only of digits.
DigitsOnlyId(c) ==
    /\ c.kind \in {"string", "number"}
    /\ OnlyDigits(Trim(CellString(c)))

\* C28: readExpedientesAndRows returns, in the order of the rows, exactly one
\* {expediente, rowNumber} for each row after the header whose column A,
\* trimmed, consists only of digits, and nothing for the header, for rows
\* with an empty column A and for rows with an id that is not all digits.
C28_FilasValidas ==
    xlsResult.kind = "filas" =>
        LET filas == xlsResult.filas
        IN  /\ \A k \in 1..Len(filas) :
                  /\ filas[k].rowNumber \in 2..Len(xlsSheet)
                  /\ DigitsOnlyId(xlsSheet[filas[k].rowNumber])
                  /\ filas[k].expediente =
                        Trim(CellString(xlsSheet[filas[k].rowNumber]))
            /\ \A k \in 1..Len(filas) : \A l \in 1..Len(filas) :
                  k < l => filas[k].rowNumber < filas[l].rowNumber
            /\ \A i \in 2..Len(xlsSheet) :
                  DigitsOnlyId(xlsSheet[i]) =>
                      \E k \in 1..Len(filas) : filas[k].rowNumber = i

EnterKeys == {"enter", "enterThrows"}

\* The attempt ended in the catch block of searchExpediente at the
\* submission.
FailedAtSubmit == pc \in {"retryDelay", "idle"} /\ submitLog # << >>

\* C31: in an attempt that reaches the submission the search button is
\* clicked when the lookup finds it; Enter is pressed when the lookup gives
\* nothing, when the lookup throws and when the click throws; the attempt
\* fails at the submission only when Enter itself throws in the inner catch,
\* never because the button is missing.
C31_SubmitFallback ==
    submitLog # << >> =>
        /\ pc = "wait" \/ FailedAtSubmit
        /\ Len(submitLog) >= 2
        /\ submitLog[1] = "element" => submitLog[2] \in {"click", "clickThrows"}
        /\ submitLog[1] \in {"null", "throws"} => submitLog[2] \in EnterKeys
        /\ (Len(submitLog) = 3) =>
              /\ submitLog[2] \in {"clickThrows", "enterThrows"}
              /\ submitLog[3] \in EnterKeys
        /\ submitLog[2] = "clickThrows" => Len(submitLog) = 3
        /\ pc = "wait" <=> Submitted(submitLog)
        /\ pc = "wait" => submitVia = Last(submitLog)
        /\ FailedAtSubmit => Last(submitLog) = "enterThrows"
        /\ (submitLog[1] = "null" /\ submitLog[2] = "enter") => pc = "wait"

C31_Witness ==
    /\ pc = "wait"
    /\ submitLog = << "element", "clickThrows", "enter" >>
    /\ submitVia = "enter"
    /\ retryCount = 1

\* C32: a timeout of the wait for a row or the no-results marker neither
\* fails the attempt nor starts a retry: the attempt goes on to the
\* evaluation of the page, and when the page then shows no row the call
\* returns the no-data result and counts no cost.
C32_WaitTimeoutTolerated ==
    [][/\ (pc = "wait" /\ waitTimeout') =>
              /\ pc' = "evaluate"
              /\ failures' = failures
              /\ attempts' = attempts
              /\ retryCount' = retryCount
       /\ (pc = "evaluate" /\ waitTimeout /\ failures' = failures
             /\ row'.kind = "none") =>
              /\ Returned'
              /\ outcome' = ResultOutcome(SinDatos, stats')
              /\ stats'.totalConCosto = stats.totalConCosto
              /\ acceptCalls' = 0]_vars

C32_Witness ==
    /\ Returned
    /\ waitTimeout
    /\ failures = 0
    /\ row.kind = "none"
    /\ outcome = ResultOutcome(SinDatos, stats)

\* aceptarExpediente was called in this call and has returned.
AcceptReturned == acceptCalls > 0 /\ pc \notin {"acceptClick", "confirm"}

\* C33: aceptarExpediente goes to the confirm control of the modal only
\* after the accept control of the row was found and clicked; when the
\* accept control is not clicked the confirmation is not tried and false is
\* returned; true is returned exactly when both clicks were made.
C33_AcceptThenConfirm ==
    /\ pc = "confirm" => acceptClicks = 1 /\ confirmClicks = 0
    /\ confirmClicks <= acceptClicks
    /\ AcceptReturned <=> acceptReturn # "none"
    /\ (AcceptReturned /\ acceptClicks = 0) =>
          confirmClicks = 0 /\ acceptReturn = "false"
    /\ AcceptReturned =>
          (acceptReturn = "true" <=> (acceptClicks = 1 /\ confirmClicks = 1))

C33_Witness ==
    /\ Returned
    /\ acceptReturn = "true"
    /\ acceptClicks = 1
    /\ confirmClicks = 1
    /\ outcome.validacion = "Aceptado"

\* C34: in one top-level call, whatever its retries, aceptarExpediente is
\* called at most once and the accept control of the row is clicked at most
\* once; once the acceptance has started no retry is pending, and a failed
\* acceptance ends the call in the attempt that made it.
C34_AcceptOnce ==
    /\ acceptCalls <= 1
    /\ acceptClicks <= 1
    /\ confirmClicks <= 1
    /\ acceptCalls = 1 =>
          /\ pc \in {"acceptClick", "confirm", "idle"}
          /\ attempts = failures + 1
    /\ acceptReturn = "false" => Returned

C34_Witness ==
    /\ Returned
    /\ acceptReturn = "false"
    /\ acceptCalls = 1
    /\ acceptClicks = 1
    /\ attempts = 2
    /\ failures = 1
    /\ outcome.validacion = "Error en aceptación"

\* C35: in one top-level call totalConCosto and totalAceptados grow by at
\* most 1 each, whatever fails and is retried: while a retry is pending,
\* and in every attempt before the evaluation of the page, both counters
\* are what they were when the call was made.
C35_CountersOncePerCall ==
    /\ stats.totalConCosto <= base.totalConCosto + 1
    /\ stats.totalAceptados <= base.totalAceptados + 1
    /\ (pc \notin {"idle", "acceptClick", "confirm"}) =>
          /\ stats.totalConCosto = base.totalConCosto
          /\ stats.totalAceptados = base.totalAceptados
    /\ (Returned /\ failures = attempts) =>
          /\ outcome.stats.totalConCosto = base.totalConCosto
          /\ outcome.stats.totalAceptados = base.totalAceptados

C35_Witness ==
    /\ Returned
    /\ attempts = 3
    /\ failures = 2
    /\ stats.totalConCosto = base.totalConCosto + 1
    /\ stats.totalAceptados = base.totalAceptados + 1
    /\ base.totalConCosto = 1

\* C37: every retry wait of a call is the fixed retryDelay of 2000 ms; one
\* wait, and only one, is issued after each failed attempt that is retried,
\* so the k-th attempt starts after k - 1 waits; no wait is issued after the
\* last failed attempt, whose error outcome is returned at once.
C37_FixedRetryWait ==
    /\ \A k \in 1..Len(delays) : delays[k] = retryDelay /\ delays[k] = 2000
    /\ pc = "retryDelay" => Len(delays) = attempts /\ failures = attempts
    /\ (pc # "retryDelay" /\ attempts >= 1) => Len(delays) = attempts - 1
    /\ (Returned /\ failures = attempts) => Len(delays) = maxRetries

C37_Witness ==
    /\ Returned
    /\ failures = maxRetries + 1
    /\ delays = << 2000, 2000, 2000 >>
    /\ outcome.validacion = "Error en consulta"

\* C36: when initialize() raises after it launched the browser, for
\* instance because login() failed, the browser and the page are released
\* and this.browser and this.page are null when the error reaches the
\* caller.
C36_FailedInitializeClosed ==
    (ipc = "idle" /\ initResult = "raised" /\ launches = 1 /\ closes = 0) =>
        /\ browser = "null"
        /\ page = "null"

\* A LicenseService call has returned.
LsReturned(call) ==
    lsCall = call /\ lspc = "idle" /\ lsResult.kind = "returned"

\* The validity request got no answer from the server: every axios call
\* of it failed with a network error.
ServerUnreachable ==
    /\ lsSent = << "validity" >>
    /\ ~apiError.response
    /\ IsNetworkError(apiError)
    /\ apiResult = ApiFailure(apiError)

\* C38: checkInitialLicense returns valid: true with offlineMode: true when
\* a token is stored and the validity request fails with a network error,
\* whether the stored token is locally expired or not; without a stored
\* token it returns valid: false with requiresToken: true and sends no
\* request.
C38_OfflineMode ==
    LsReturned("checkInitialLicense") =>
        /\ (lsStore.has /\ ServerUnreachable) =>
              lsResult.valid /\ lsResult.offlineMode
        /\ ~lsStore.has =>
              /\ ~lsResult.valid
              /\ lsResult.requiresToken
              /\ lsSent = << >>

\* The token is empty or made of blanks only.
BlankToken(token) == \A i \in 1..Len(token) : token[i] = " "

\* C39: validateToken sends no request for an empty or blank token;
\* otherwise it sends the redeem request first, and the validate request only
\* after the redemption ended without success; the token is saved only after
\* one of the two answers reported success.
C39_RedeemThenValidate ==
    lsCall = "validateToken" =>
        /\ BlankToken(lsToken) =>
              /\ lsSent = << >>
              /\ lspc = "idle"
              /\ ~lsResult.valid
              /\ lsSaves = 0
        /\ lsSent \in { << >>, << "redeem" >>, << "redeem", "validate" >> }
        /\ ~BlankToken(lsToken) => Len(lsSent) >= 1
        /\ Len(lsSent) = 2 => (Len(lsReplies) >= 1 /\ lsReplies[1] = "failure")
        /\ lspc = "redeem" => lsReplies = << >>
        /\ lsSaves <= 1
        /\ lsSaves = 1 =>
              /\ lsReplies # << >>
              /\ lsReplies[Len(lsReplies)] = "success"
              /\ Len(lsReplies) = Len(lsSent)
              /\ lsResult.valid
        /\ lsResult.valid => lsSaves = 1

C39_Witness ==
    /\ LsReturned("validateToken")
    /\ lsToken = << "T", "2" >>
    /\ lsSent = << "redeem", "validate" >>
    /\ lsReplies = << "failure", "success" >>
    /\ lsStore = StoredToken(<< "T", "2" >>, FALSE)
    /\ lsResult.valid

\* C40: whatever startPeriodicCheck and stopPeriodicCheck calls were made,
\* at most one timer is active, the one this.checkInterval names; after
\* stopPeriodicCheck none is active; a periodic check is only ever started by
\* the timer this.checkInterval names.
C40_SingleTimer ==
    /\ Cardinality(timers) <= 1
    /\ checkInterval = 0 => timers = {}
    /\ checkInterval # 0 => timers = {checkInterval}
    /\ lsTimerOp = "stop" => (timers = {} /\ checkInterval = 0)
    /\ lsTimerOp = "tick" => (lsTicker # 0 /\ lsTicker = checkInterval)

C40_Witness ==
    /\ lsTimerOp = "tick"
    /\ lsTicker = 2
    /\ checkInterval = 2
    /\ timers = {2}
    /\ lspc = "validity"

=============================================================================
